---- MODULE Spec2Model ----
(***************************************************************************)
(* POS / inventory backend (Flask + SQLAlchemy on SQLite).                 *)
(*                                                                         *)
(* The state is the committed content of the database tables the sale,     *)
(* stock and purchase-order routes write, plus the last request and its    *)
(* HTTP answer.  Every route runs in one request-scoped session: it either *)
(* reaches db.session.commit() (all its writes become the new stored       *)
(* state) or it returns / raises before the commit (rollback in the except *)
(* clause, or the session is discarded at the end of the request) and the  *)
(* stored state is the one before the request.                             *)
(*                                                                         *)
(* Requests are served one at a time in every specification but            *)
(* SpecConcurrent, where two worker threads each serve a sale or a refund  *)
(* in two steps: the reads up to the first write, then the writes up to    *)
(* the commit (SQLite admits one writing transaction at a time).           *)
(*                                                                         *)
(* Money.  Request amounts and catalog prices are whole cents.  Values the *)
(* handlers compute in Python floats (tax, totals) are kept exactly, in    *)
(* hundredths of a cent ("cc"); a value stored in a Numeric(_, 2) column   *)
(* is rounded to whole cents (Round2).  Tax rates in the catalog are       *)
(* chosen so that no rounding tie occurs.                                  *)
(***************************************************************************)
EXTENDS Integers, Sequences, FiniteSets, TLC

VARIABLES
    inventory,        \* table inventory: sequence of rows, in id order
    movements,        \* table stock_movements: sequence of rows, in id order
    sales,            \* table sales: sequence of rows, index = id
    sale_items,       \* table sale_items
    customers,        \* table customers: id -> [loyalty_points, total_purchases]
    loyalty,          \* table loyalty_transactions
    purchase_orders,  \* table purchase_orders: sequence of rows, index = id
    po_items,         \* table purchase_order_items: sequence of rows, index = id
    settings,         \* system_settings row LOYALTY_POINTS_RATE (or NoSetting)
    resp,             \* the last request and the answer it got
    inflight          \* per worker thread: the request it is serving, if any

stored == <<inventory, movements, sales, sale_items, customers, loyalty,
            purchase_orders, po_items, settings>>
vars == <<inventory, movements, sales, sale_items, customers, loyalty,
          purchase_orders, po_items, settings, resp, inflight>>

----------------------------------------------------------------------------
(* Bounds of the model. *)

MaxSales == 2       \* sales booked in one run
MaxMovements == 4   \* rows in the movement log in one run
MaxOrders == 1      \* purchase orders created in one run
MaxStockMoves == 3  \* movement rows written by stock requests
MaxRows == 5        \* sales, movements and orders written in one run of Spec
MaxLoyalty == 3     \* rows in the loyalty log in one run of SpecLoyalty
InitStock == 2      \* seeded current_stock of the main branch (50 in init_db)

----------------------------------------------------------------------------
(* Catalog: users, branches, products and customers are fixed rows. *)

\* an optional value is <<>> (absent, None) or <<v>>
NoSetting == <<>>
NoPrice == <<>>
NoStatus == "NoStatus"

\* users.role by user (models/user.py: role column; init_db seeds one of each)
UserRole == [admin |-> "Admin", cashier |-> "Cashier", manager |-> "InventoryManager"]
Users == DOMAIN UserRole

\* branches: 1 = Main Store (seeded), 2 = a second branch; 3 names no branch
Branches == {1, 2}
BranchIds == {1, 2, 3}

\* products: selling_price in cents, tax_rate in percent; 3 is inactive,
\* 4 names no product
ProductTable ==
    (1 :> [selling_price |-> 110, tax_rate |-> 4, is_active |-> TRUE]) @@
    (2 :> [selling_price |-> 10,  tax_rate |-> 0, is_active |-> TRUE]) @@
    (3 :> [selling_price |-> 10,  tax_rate |-> 0, is_active |-> FALSE])
Products == DOMAIN ProductTable

\* customers: 1 exists; 2 names no customer; 0 is "no customer_id given"
CustomerRows == {1}

----------------------------------------------------------------------------
(* check_permission(required_roles): the user's role is in the set. *)

check_permission_Open(u, required_roles) == TRUE
check_permission(u, required_roles) == UserRole[u] \in required_roles

----------------------------------------------------------------------------
(* Inventory rows and the queries on them. *)

\* Inventory.query.filter_by(product_id, branch_id).first(): the index of the
\* first matching row, 0 when there is none
InvFirst(inv, p, b) ==
    LET hits == {i \in 1..Len(inv) : inv[i].product_id = p /\ inv[i].branch_id = b}
    IN IF hits = {} THEN 0 ELSE CHOOSE i \in hits : \A j \in hits : i <= j

\* Inventory.available_stock
available_stock(row) == row.current_stock - row.reserved_stock

\* Inventory(product_id, branch_id, current_stock=0); reserved_stock takes the
\* column default 0 on insert
NewInventory(p, b) ==
    [product_id |-> p, branch_id |-> b, current_stock |-> 0, reserved_stock |-> 0]

AddStock_Overwrites(inv, i, d) ==
    [inv EXCEPT ![i].current_stock = d]
\* row.current_stock += d
AddStock(inv, i, d) ==
    [inv EXCEPT ![i].current_stock = inv[i].current_stock + d]

\* StockMovement(...)
Movement(p, b, type, qty, ref) ==
    [product_id |-> p, branch_id |-> b, movement_type |-> type,
     quantity |-> qty, reference |-> ref]

----------------------------------------------------------------------------
(* Numeric(_, 2) columns: a computed amount (in hundredths of a cent) is    *)
(* stored, and read back, rounded to whole cents.                           *)

Round2(cc) == (cc + 50) \div 100

\* int(x): truncation toward zero of x = n / d, d > 0
IntTrunc(n, d) == IF n >= 0 THEN n \div d ELSE -((-n) \div d)

RECURSIVE SumSeq(_)
SumSeq(s) == IF s = <<>> THEN 0 ELSE Head(s) + SumSeq(Tail(s))

----------------------------------------------------------------------------
(* The answer of a request. *)

Answer(op, req, code, err) == [op |-> op, req |-> req, code |-> code, err |-> err]

----------------------------------------------------------------------------
(* The stored state as one value, and the result of a handler. *)

DB == [inventory |-> inventory, movements |-> movements, sales |-> sales,
       sale_items |-> sale_items, customers |-> customers, loyalty |-> loyalty,
       purchase_orders |-> purchase_orders, po_items |-> po_items,
       settings |-> settings]

\* return jsonify(error), code before any commit: the stored state stays db
Rejected(db, code, err) == [code |-> code, err |-> err, db |-> db]
\* except Exception: db.session.rollback(): the writes of the session are
\* dropped, the stored state is the one before the request
rollback_KeepsSession(db, session) == session
rollback(db, session) == db
\* db.session.commit() and the success answer
Committed(db, code) == [code |-> code, err |-> "", db |-> db]

----------------------------------------------------------------------------
(* routes/sales.py create_sale *)

LineCheck_MissingRowPasses(inv, item, branch_id) ==
    IF item.product_id = 0 \/ item.quantity <= 0
    THEN [code |-> 400, err |-> "InvalidItem"]
    ELSE IF item.product_id \notin Products
            \/ ~ProductTable[item.product_id].is_active
    THEN [code |-> 404, err |-> "ProductNotFound"]
    ELSE LET i == InvFirst(inv, item.product_id, branch_id)
         IN IF i # 0 /\ available_stock(inv[i]) < item.quantity
            THEN [code |-> 400, err |-> "InsufficientStock"]
            ELSE [code |-> 0, err |-> ""]
\* one pass of the loop "for item_data in items_data" up to the stock check:
\* the answer the line is refused with, or code 0 when it is accepted
LineCheck(inv, item, branch_id) ==
    IF item.product_id = 0 \/ item.quantity <= 0
    THEN [code |-> 400, err |-> "InvalidItem"]
    ELSE IF item.product_id \notin Products
            \/ ~ProductTable[item.product_id].is_active
    THEN [code |-> 404, err |-> "ProductNotFound"]
    ELSE LET i == InvFirst(inv, item.product_id, branch_id)
         IN IF i = 0 \/ available_stock(inv[i]) < item.quantity
            THEN [code |-> 400, err |-> "InsufficientStock"]
            ELSE [code |-> 0, err |-> ""]

FirstRefused_SkipsInactive(inv, items, branch_id) ==
    LET bad == {k \in 1..Len(items) :
                   /\ LineCheck(inv, items[k], branch_id).code # 0
                   /\ ~(items[k].product_id \in Products
                        /\ ~ProductTable[items[k].product_id].is_active)}
    IN IF bad = {} THEN 0 ELSE CHOOSE k \in bad : \A j \in bad : k <= j
\* the first line the loop returns on, 0 when every line is accepted
FirstRefused(inv, items, branch_id) ==
    LET bad == {k \in 1..Len(items) : LineCheck(inv, items[k], branch_id).code # 0}
    IN IF bad = {} THEN 0 ELSE CHOOSE k \in bad : \A j \in bad : k <= j

\* "Calculate line totals" and validated_items.append: the in-memory values;
\* subtotal in cents, tax and total in hundredths of a cent
ValidatedItem(item) ==
    LET product == ProductTable[item.product_id]
        unit_price == IF item.unit_price = NoPrice
                      THEN product.selling_price ELSE item.unit_price[1]
        line_subtotal == unit_price * item.quantity - item.discount_amount
        tax_cc == line_subtotal * product.tax_rate
    IN [product_id |-> item.product_id, quantity |-> item.quantity,
        unit_price |-> unit_price, discount_amount |-> item.discount_amount,
        line_subtotal |-> line_subtotal, tax_cc |-> tax_cc,
        line_total_cc |-> line_subtotal * 100 + tax_cc]

\* SaleItem(sale_id=sale.id, **item_data) as stored
SaleItemRow(sale_id, v) ==
    [sale_id |-> sale_id, product_id |-> v.product_id, quantity |-> v.quantity,
     unit_price |-> v.unit_price, discount_amount |-> v.discount_amount,
     tax_amount |-> Round2(v.tax_cc), line_total |-> Round2(v.line_total_cc)]

\* reference=f"SALE-{item.get('sale_id', '')}": the validated item dicts carry
\* no sale_id key, so the id part is the empty string
SaleReference(v) == [kind |-> "SALE", id |-> ""]

\* update_inventory_after_sale: for each item, in order
RECURSIVE update_inventory_after_sale(_, _, _, _)
update_inventory_after_sale(inv, movs, items, branch_id) ==
    IF items = <<>> THEN [inventory |-> inv, movements |-> movs]
    ELSE LET v == Head(items)
             i == InvFirst(inv, v.product_id, branch_id)
         IN IF i = 0
            THEN update_inventory_after_sale(inv, movs, Tail(items), branch_id)
            ELSE update_inventory_after_sale(
                     AddStock(inv, i, -v.quantity),
                     Append(movs, Movement(v.product_id, branch_id, "OUT",
                                           -v.quantity, SaleReference(v))),
                     Tail(items), branch_id)

\* float(setting_value) if the setting exists else 1.0
LoyaltyRate(setting) == IF setting = NoSetting THEN 1 ELSE setting[1]

\* points_earned = int(total_amount * loyalty_rate)
PointsEarned(total_cc, rate) == IntTrunc(total_cc * rate, 10000)

\* customer.total_purchases += total_amount: the attribute read from the
\* Numeric column is a decimal.Decimal and total_amount is a float (the tax is
\* always computed as a float); Decimal + float raises TypeError
DecimalPlusFloat(total_purchases, total_cc) ==
    [raised |-> TRUE, value |-> total_purchases]

create_sale(db, u, req) ==
    IF ~check_permission(u, {"Admin", "Cashier"})
    THEN Rejected(db, 403, "Unauthorized")
    ELSE IF ~req.has_total_amount THEN Rejected(db, 400, "FieldRequired")
    ELSE IF req.items = <<>> THEN Rejected(db, 400, "EmptyCart")
    ELSE IF req.branch_id \notin Branches THEN Rejected(db, 404, "BranchNotFound")
    ELSE IF req.customer_id # 0 /\ req.customer_id \notin DOMAIN db.customers
    THEN Rejected(db, 404, "CustomerNotFound")
    ELSE
    LET k == FirstRefused(db.inventory, req.items, req.branch_id) IN
    IF k # 0
    THEN LET c == LineCheck(db.inventory, req.items[k], req.branch_id)
         IN Rejected(db, c.code, c.err)
    ELSE
    LET validated_items == [j \in 1..Len(req.items) |-> ValidatedItem(req.items[j])]
        sub_total == SumSeq([j \in 1..Len(req.items) |-> validated_items[j].line_subtotal])
        total_tax_cc == SumSeq([j \in 1..Len(req.items) |-> validated_items[j].tax_cc])
        total_cc == sub_total * 100 + total_tax_cc - req.discount_amount * 100
        sale_id == Len(db.sales) + 1
        sale == [sale_number |-> sale_id, customer_id |-> req.customer_id,
                 branch_id |-> req.branch_id, sub_total |-> sub_total,
                 tax_amount |-> Round2(total_tax_cc),
                 discount_amount |-> req.discount_amount,
                 total_amount |-> Round2(total_cc),
                 payment_status |-> "Completed"]
        items == [j \in 1..Len(req.items) |-> SaleItemRow(sale_id, validated_items[j])]
        stock == update_inventory_after_sale(db.inventory, db.movements,
                                             validated_items, req.branch_id)
        booked == [db EXCEPT !.sales = Append(db.sales, sale),
                             !.sale_items = db.sale_items \o items,
                             !.inventory = stock.inventory,
                             !.movements = stock.movements]
        points_earned == PointsEarned(total_cc, LoyaltyRate(db.settings))
    IN
    IF req.customer_id = 0 \/ points_earned <= 0
    THEN Committed(booked, 201)
    ELSE
    LET customer == db.customers[req.customer_id]
        sum == DecimalPlusFloat(customer.total_purchases, total_cc)
    IN
    IF sum.raised
    THEN \* customer.loyalty_points += points_earned has run, the sale, its
         \* items and the stock changes are flushed or pending in the session
         Rejected(rollback(db, [booked EXCEPT
                      !.customers[req.customer_id].loyalty_points =
                          customer.loyalty_points + points_earned]),
                  500, "TypeError")
    ELSE Committed(
           [booked EXCEPT
              !.customers[req.customer_id] =
                  [loyalty_points |-> customer.loyalty_points + points_earned,
                   total_purchases |-> sum.value],
              !.loyalty = Append(db.loyalty,
                  [customer_id |-> req.customer_id, sale_id |-> sale_id,
                   transaction_type |-> "EARNED", points |-> points_earned])],
           201)

----------------------------------------------------------------------------
(* routes/sales.py refund_sale *)

\* sale.items: the items of the sale, in id order
ItemsOf(items, sale_id) == SelectSeq(items, LAMBDA it : it.sale_id = sale_id)

\* reference=f"REFUND-{sale.sale_number}"
RefundReference(sale) == [kind |-> "REFUND", id |-> sale.sale_number]

\* "Restore inventory": for item in sale.items
RECURSIVE restore_inventory(_, _, _, _)
restore_inventory(inv, movs, items, sale) ==
    IF items = <<>> THEN [inventory |-> inv, movements |-> movs]
    ELSE LET item == Head(items)
             i == InvFirst(inv, item.product_id, sale.branch_id)
         IN IF i = 0
            THEN restore_inventory(inv, movs, Tail(items), sale)
            ELSE restore_inventory(
                     AddStock(inv, i, item.quantity),
                     Append(movs, Movement(item.product_id, sale.branch_id, "IN",
                                           item.quantity, RefundReference(sale))),
                     Tail(items), sale)

\* LoyaltyTransaction.query.filter_by(customer_id, sale_id,
\* transaction_type='EARNED').first(): index of the row, 0 when none
EarnedFirst(log, customer_id, sale_id) ==
    LET hits == {i \in 1..Len(log) : /\ log[i].customer_id = customer_id
                                     /\ log[i].sale_id = sale_id
                                     /\ log[i].transaction_type = "EARNED"}
    IN IF hits = {} THEN 0 ELSE CHOOSE i \in hits : \A j \in hits : i <= j

refund_loyalty_Skipped(db, sale_id) == db
\* "Handle loyalty points refund"
refund_loyalty(db, sale_id) ==
    LET sale == db.sales[sale_id]
        c == sale.customer_id
    IN IF c = 0 \/ c \notin DOMAIN db.customers THEN db
       ELSE LET e == EarnedFirst(db.loyalty, c, sale_id)
            IN IF e = 0 THEN db
               ELSE [db EXCEPT
                       !.customers[c] =
                           [loyalty_points |-> db.customers[c].loyalty_points
                                               - db.loyalty[e].points,
                            total_purchases |-> db.customers[c].total_purchases
                                                - sale.total_amount],
                       !.loyalty = Append(db.loyalty,
                           [customer_id |-> c, sale_id |-> sale_id,
                            transaction_type |-> "ADJUSTED",
                            points |-> -db.loyalty[e].points])]

AlreadyRefunded_Never(sale) == FALSE
\* if sale.payment_status == 'Refunded'
AlreadyRefunded(sale) == sale.payment_status = "Refunded"

refund_sale(db, u, sale_id) ==
    IF ~check_permission(u, {"Admin", "Cashier"})
    THEN Rejected(db, 403, "Unauthorized")
    ELSE IF sale_id \notin 1..Len(db.sales) THEN Rejected(db, 404, "SaleNotFound")
    ELSE IF AlreadyRefunded(db.sales[sale_id])
    THEN Rejected(db, 400, "AlreadyRefunded")
    ELSE
    LET sale == db.sales[sale_id]
        stock == restore_inventory(db.inventory, db.movements,
                                   ItemsOf(db.sale_items, sale_id), sale)
        marked == [db EXCEPT !.sales[sale_id].payment_status = "Refunded",
                             !.inventory = stock.inventory,
                             !.movements = stock.movements]
    IN Committed(refund_loyalty(marked, sale_id), 200)

----------------------------------------------------------------------------
(* routes/customer.py adjust_loyalty_points *)

adjust_loyalty_points_Unlogged(db, u, req) ==
    IF ~check_permission(u, {"Admin"}) THEN Rejected(db, 403, "Unauthorized")
    ELSE IF req.customer_id \notin DOMAIN db.customers
    THEN Rejected(db, 404, "CustomerNotFound")
    ELSE IF ~req.has_points THEN Rejected(db, 400, "PointsRequired")
    ELSE Committed([db EXCEPT !.customers[req.customer_id].loyalty_points =
                                  @ + req.points],
                   200)
\* customer.loyalty_points += points and one LoyaltyTransaction 'ADJUSTED'
\* of the same points, without a sale (sale_id 0)
adjust_loyalty_points(db, u, req) ==
    IF ~check_permission(u, {"Admin"}) THEN Rejected(db, 403, "Unauthorized")
    ELSE IF req.customer_id \notin DOMAIN db.customers
    THEN Rejected(db, 404, "CustomerNotFound")
    ELSE IF ~req.has_points THEN Rejected(db, 400, "PointsRequired")
    ELSE Committed([db EXCEPT
                      !.customers[req.customer_id].loyalty_points =
                          @ + req.points,
                      !.loyalty = Append(db.loyalty,
                          [customer_id |-> req.customer_id, sale_id |-> 0,
                           transaction_type |-> "ADJUSTED",
                           points |-> req.points])],
                   200)

----------------------------------------------------------------------------
(* routes/inventory.py adjust_stock and transfer_stock *)

GetOrCreate_AlwaysNew(inv, p, b) ==
    [inventory |-> Append(inv, NewInventory(p, b)), row |-> Len(inv) + 1]
\* "Get or create inventory record": the rows of the session and the index
\* of the row of (p, b) among them
GetOrCreate(inv, p, b) ==
    LET i == InvFirst(inv, p, b)
    IN IF i = 0
       THEN [inventory |-> Append(inv, NewInventory(p, b)), row |-> Len(inv) + 1]
       ELSE [inventory |-> inv, row |-> i]

remove_session_Keeps(db, session) == session
\* a return without commit: the request's session is removed when the
\* request ends, rows added to it and not committed are not stored
remove_session(db, session) == db

\* reference = data.get('reference', '')
AdjustReference == [kind |-> "", id |-> ""]

new_stock_Adds(movement_type, current_stock, quantity) ==
    current_stock + quantity
\* "Calculate new stock level", for the three accepted movement types
new_stock(movement_type, current_stock, quantity) ==
    IF movement_type = "IN" THEN current_stock + quantity
    ELSE IF movement_type = "OUT" THEN current_stock - quantity
    ELSE quantity

adjust_stock(db, u, req) ==
    IF ~check_permission(u, {"Admin", "InventoryManager"})
    THEN Rejected(db, 403, "Unauthorized")
    ELSE IF ~req.has_fields THEN Rejected(db, 400, "FieldRequired")
    ELSE IF req.product_id \notin Products THEN Rejected(db, 404, "ProductNotFound")
    ELSE IF req.branch_id \notin Branches THEN Rejected(db, 404, "BranchNotFound")
    ELSE
    LET got == GetOrCreate(db.inventory, req.product_id, req.branch_id)
        session == [db EXCEPT !.inventory = got.inventory]
        current_stock == got.inventory[got.row].current_stock
    IN
    IF req.movement_type = "OUT" /\ current_stock < req.quantity
    THEN Rejected(remove_session(db, session), 400, "InsufficientStock")
    ELSE IF req.movement_type \notin {"IN", "OUT", "ADJUSTMENT"}
    THEN Rejected(remove_session(db, session), 400, "InvalidMovementType")
    ELSE Committed(
           [session EXCEPT
              !.inventory[got.row].current_stock =
                  new_stock(req.movement_type, current_stock, req.quantity),
              !.movements = Append(db.movements,
                  Movement(req.product_id, req.branch_id, req.movement_type,
                           IF req.movement_type # "OUT" THEN req.quantity
                           ELSE -req.quantity,
                           AdjustReference))],
           200)

\* transfer_ref = f"TRANSFER-{utcnow:%Y%m%d%H%M%S}"
TransferReference(now) == [kind |-> "TRANSFER", id |-> now]

SourceShort_MissingOnly(inv, i, quantity) == i = 0
\* if not from_inventory or from_inventory.available_stock < quantity
SourceShort(inv, i, quantity) ==
    i = 0 \/ available_stock(inv[i]) < quantity

transfer_movements_BothOut(p, from_branch_id, to_branch_id, quantity, ref) ==
    <<Movement(p, from_branch_id, "TRANSFER", -quantity, ref),
      Movement(p, from_branch_id, "TRANSFER", -quantity, ref)>>
\* out_movement, in_movement
transfer_movements(p, from_branch_id, to_branch_id, quantity, ref) ==
    <<Movement(p, from_branch_id, "TRANSFER", -quantity, ref),
      Movement(p, to_branch_id, "TRANSFER", quantity, ref)>>

transfer_stock(db, u, req, now) ==
    IF ~check_permission(u, {"Admin", "InventoryManager"})
    THEN Rejected(db, 403, "Unauthorized")
    ELSE IF ~req.has_fields THEN Rejected(db, 400, "FieldRequired")
    ELSE IF req.from_branch_id = req.to_branch_id
    THEN Rejected(db, 400, "SameBranch")
    ELSE IF req.product_id \notin Products THEN Rejected(db, 404, "ProductNotFound")
    ELSE IF req.from_branch_id \notin Branches \/ req.to_branch_id \notin Branches
    THEN Rejected(db, 404, "BranchNotFound")
    ELSE
    LET from_inventory == InvFirst(db.inventory, req.product_id, req.from_branch_id)
    IN
    IF SourceShort(db.inventory, from_inventory, req.quantity)
    THEN Rejected(db, 400, "InsufficientStock")
    ELSE
    LET got == GetOrCreate(db.inventory, req.product_id, req.to_branch_id)
        moved == AddStock(AddStock(got.inventory, from_inventory, -req.quantity),
                          got.row, req.quantity)
    IN Committed(
         [db EXCEPT
            !.inventory = moved,
            !.movements = db.movements \o
                transfer_movements(req.product_id, req.from_branch_id,
                                   req.to_branch_id, req.quantity,
                                   TransferReference(now))],
         200)

----------------------------------------------------------------------------
(* routes/purchase.py *)

\* suppliers: 1 is active, 2 is inactive, any other id is missing
ActiveSuppliers == {1}

NoDate == "NoDate"
\* datetime.strptime(expected_delivery_date, '%Y-%m-%d') raises ValueError
BadDate(date) == date = "Invalid"

\* the check of one item of a new order: code 0 when it passes
OrderItemCheck(item) ==
    IF item.product_id = 0 \/ item.ordered_quantity <= 0 \/ item.unit_cost <= 0
    THEN [code |-> 400, err |-> "InvalidItem"]
    ELSE IF item.product_id \notin Products
            \/ ~ProductTable[item.product_id].is_active
    THEN [code |-> 404, err |-> "ProductNotFound"]
    ELSE [code |-> 0, err |-> ""]

\* index of the first item that is refused, 0 when none is
FirstBadOrderItem(items) ==
    LET bad == {j \in 1..Len(items) : OrderItemCheck(items[j]).code # 0}
    IN IF bad = {} THEN 0 ELSE CHOOSE j \in bad : \A k \in bad : j <= k

\* PurchaseOrderItem(purchase_order_id=purchase_order.id, **item_data)
OrderItemRow(po_id, item) ==
    [purchase_order_id |-> po_id, product_id |-> item.product_id,
     ordered_quantity |-> item.ordered_quantity, received_quantity |-> 0,
     unit_cost |-> item.unit_cost,
     line_total |-> item.unit_cost * item.ordered_quantity]

create_purchase_order(db, u, req) ==
    IF ~check_permission(u, {"Admin", "InventoryManager"})
    THEN Rejected(db, 403, "Unauthorized")
    ELSE IF ~req.has_fields THEN Rejected(db, 400, "FieldRequired")
    ELSE IF req.items = <<>> THEN Rejected(db, 400, "EmptyOrder")
    ELSE IF req.supplier_id \notin ActiveSuppliers
    THEN Rejected(db, 404, "SupplierNotFound")
    ELSE IF req.branch_id \notin Branches THEN Rejected(db, 404, "BranchNotFound")
    ELSE IF BadDate(req.expected_delivery_date)
    THEN Rejected(db, 400, "InvalidDate")
    ELSE
    LET k == FirstBadOrderItem(req.items) IN
    IF k # 0
    THEN Rejected(db, OrderItemCheck(req.items[k]).code,
                  OrderItemCheck(req.items[k]).err)
    ELSE
    LET po_id == Len(db.purchase_orders) + 1
        rows == [j \in 1..Len(req.items) |-> OrderItemRow(po_id, req.items[j])]
        sub_total == SumSeq([j \in 1..Len(rows) |-> rows[j].line_total])
        purchase_order ==
            [po_number |-> po_id, supplier_id |-> req.supplier_id,
             branch_id |-> req.branch_id, status |-> "Pending",
             sub_total |-> sub_total, total_amount |-> sub_total]
    IN Committed([db EXCEPT
                    !.purchase_orders = Append(db.purchase_orders, purchase_order),
                    !.po_items = db.po_items \o rows],
                 201)

\* for field in updatable_fields: if field in data: setattr(...); of the
\* three fields only status is kept in the model
update_fields(purchase_order, req) ==
    IF req.status = NoStatus THEN purchase_order
    ELSE [purchase_order EXCEPT !.status = req.status]

update_purchase_order(db, u, req) ==
    IF ~check_permission(u, {"Admin", "InventoryManager"})
    THEN Rejected(db, 403, "Unauthorized")
    ELSE IF req.po_id \notin 1..Len(db.purchase_orders)
    THEN Rejected(db, 404, "OrderNotFound")
    ELSE IF db.purchase_orders[req.po_id].status \in {"Received", "Cancelled"}
    THEN Rejected(db, 400, "CannotUpdate")
    ELSE IF BadDate(req.expected_delivery_date)
    THEN Rejected(db, 400, "InvalidDate")
    ELSE Committed([db EXCEPT !.purchase_orders[req.po_id] =
                                   update_fields(@, req)],
                   200)

\* reference=purchase_order.po_number
OrderReference(purchase_order) == [kind |-> "PO", id |-> purchase_order.po_number]

RECURSIVE receive_items_Capped(_, _, _, _)
receive_items_Capped(session, purchase_order, po_id, received_items) ==
    IF received_items = <<>> THEN session
    ELSE
    LET item_id == Head(received_items).item_id
        asked == Head(received_items).received_quantity
        open == IF item_id \in 1..Len(session.po_items)
                THEN session.po_items[item_id].ordered_quantity
                       - session.po_items[item_id].received_quantity
                ELSE asked
        received_quantity == IF asked > open /\ open > 0 THEN open ELSE asked
    IN
    IF received_quantity <= 0
    THEN receive_items_Capped(session, purchase_order, po_id, Tail(received_items))
    ELSE IF item_id \notin 1..Len(session.po_items)
            \/ session.po_items[item_id].purchase_order_id # po_id
    THEN [session EXCEPT !.ok = FALSE]
    ELSE
    LET po_item == session.po_items[item_id]
        got == GetOrCreate(session.inventory, po_item.product_id,
                           purchase_order.branch_id)
    IN receive_items_Capped(
         [ok |-> TRUE,
          po_items |-> [session.po_items EXCEPT
                          ![item_id].received_quantity = @ + received_quantity],
          inventory |-> AddStock(got.inventory, got.row, received_quantity),
          movements |-> Append(session.movements,
              Movement(po_item.product_id, purchase_order.branch_id, "IN",
                       received_quantity, OrderReference(purchase_order)))],
         purchase_order, po_id, Tail(received_items))

\* "Process received items": the rows of the session after the loop, ok
\* FALSE when the loop returned at an invalid item id
RECURSIVE receive_items(_, _, _, _)
receive_items(session, purchase_order, po_id, received_items) ==
    IF received_items = <<>> THEN session
    ELSE
    LET item_id == Head(received_items).item_id
        received_quantity == Head(received_items).received_quantity
    IN
    IF received_quantity <= 0
    THEN receive_items(session, purchase_order, po_id, Tail(received_items))
    ELSE IF item_id \notin 1..Len(session.po_items)
            \/ session.po_items[item_id].purchase_order_id # po_id
    THEN [session EXCEPT !.ok = FALSE]
    ELSE
    LET po_item == session.po_items[item_id]
        got == GetOrCreate(session.inventory, po_item.product_id,
                           purchase_order.branch_id)
    IN receive_items(
         [ok |-> TRUE,
          po_items |-> [session.po_items EXCEPT
                          ![item_id].received_quantity = @ + received_quantity],
          inventory |-> AddStock(got.inventory, got.row, received_quantity),
          movements |-> Append(session.movements,
              Movement(po_item.product_id, purchase_order.branch_id, "IN",
                       received_quantity, OrderReference(purchase_order)))],
         purchase_order, po_id, Tail(received_items))

all_received_Any(items, po_id) ==
    \E i \in 1..Len(items) :
        /\ items[i].purchase_order_id = po_id
        /\ items[i].received_quantity >= items[i].ordered_quantity
\* all(item.received_quantity >= item.ordered_quantity
\*     for item in purchase_order.items)
all_received(items, po_id) ==
    \A i \in 1..Len(items) :
        items[i].purchase_order_id = po_id
            => items[i].received_quantity >= items[i].ordered_quantity

receive_purchase_order_KeepsPartial(db, u, req) ==
    IF ~check_permission(u, {"Admin", "InventoryManager"})
    THEN Rejected(db, 403, "Unauthorized")
    ELSE IF req.po_id \notin 1..Len(db.purchase_orders)
    THEN Rejected(db, 404, "OrderNotFound")
    ELSE IF db.purchase_orders[req.po_id].status # "Approved"
    THEN Rejected(db, 400, "NotApproved")
    ELSE IF req.items = <<>> THEN Rejected(db, 400, "NoItems")
    ELSE
    LET purchase_order == db.purchase_orders[req.po_id]
        session == receive_items([ok |-> TRUE, po_items |-> db.po_items,
                                  inventory |-> db.inventory,
                                  movements |-> db.movements],
                                 purchase_order, req.po_id, req.items)
        received == [db EXCEPT !.po_items = session.po_items,
                               !.inventory = session.inventory,
                               !.movements = session.movements]
    IN
    IF ~session.ok
    THEN Rejected(received, 400, "InvalidItem")
    ELSE IF all_received(session.po_items, req.po_id)
    THEN Committed([received EXCEPT
                      !.purchase_orders[req.po_id].status = "Received"], 200)
    ELSE Committed(received, 200)
receive_purchase_order(db, u, req) ==
    IF ~check_permission(u, {"Admin", "InventoryManager"})
    THEN Rejected(db, 403, "Unauthorized")
    ELSE IF req.po_id \notin 1..Len(db.purchase_orders)
    THEN Rejected(db, 404, "OrderNotFound")
    ELSE IF db.purchase_orders[req.po_id].status # "Approved"
    THEN Rejected(db, 400, "NotApproved")
    ELSE IF req.items = <<>> THEN Rejected(db, 400, "NoItems")
    ELSE
    LET purchase_order == db.purchase_orders[req.po_id]
        session == receive_items([ok |-> TRUE, po_items |-> db.po_items,
                                  inventory |-> db.inventory,
                                  movements |-> db.movements],
                                 purchase_order, req.po_id, req.items)
        received == [db EXCEPT !.po_items = session.po_items,
                               !.inventory = session.inventory,
                               !.movements = session.movements]
    IN
    IF ~session.ok
    THEN Rejected(remove_session(db, received), 400, "InvalidItem")
    ELSE IF all_received(session.po_items, req.po_id)
    THEN Committed([received EXCEPT
                      !.purchase_orders[req.po_id].status = "Received"], 200)
    ELSE Committed(received, 200)

approve_purchase_order(db, u, req) ==
    IF ~check_permission(u, {"Admin"})
    THEN Rejected(db, 403, "Unauthorized")
    ELSE IF req.po_id \notin 1..Len(db.purchase_orders)
    THEN Rejected(db, 404, "OrderNotFound")
    ELSE IF db.purchase_orders[req.po_id].status # "Pending"
    THEN Rejected(db, 400, "NotPending")
    ELSE Committed([db EXCEPT !.purchase_orders[req.po_id].status = "Approved"],
                   200)

cancel_purchase_order_Unguarded(db, u, req) ==
    IF ~check_permission(u, {"Admin", "InventoryManager"})
    THEN Rejected(db, 403, "Unauthorized")
    ELSE IF req.po_id \notin 1..Len(db.purchase_orders)
    THEN Rejected(db, 404, "OrderNotFound")
    ELSE Committed([db EXCEPT !.purchase_orders[req.po_id].status = "Cancelled"],
                   200)
cancel_purchase_order(db, u, req) ==
    IF ~check_permission(u, {"Admin", "InventoryManager"})
    THEN Rejected(db, 403, "Unauthorized")
    ELSE IF req.po_id \notin 1..Len(db.purchase_orders)
    THEN Rejected(db, 404, "OrderNotFound")
    ELSE IF db.purchase_orders[req.po_id].status \in {"Received", "Cancelled"}
    THEN Rejected(db, 400, "CannotCancel")
    ELSE Committed([db EXCEPT !.purchase_orders[req.po_id].status = "Cancelled"],
                   200)

----------------------------------------------------------------------------
(* Requests the model sends. *)

Line(p, q) == [product_id |-> p, quantity |-> q, unit_price |-> NoPrice,
               discount_amount |-> 0]
\* a line with a unit_price override and a per-line discount
PricedLine == [product_id |-> 1, quantity |-> 1, unit_price |-> <<50>>,
               discount_amount |-> 10]
SaleRequest(u, t, b, c, d, items) ==
    [user |-> u, has_total_amount |-> t, branch_id |-> b, customer_id |-> c,
     discount_amount |-> d, items |-> items]

\* requests refused before the cart is looked at, and the same request by
\* each role
HeaderRequests ==
    {SaleRequest(u, TRUE, 1, 0, 0, <<Line(2, 1)>>) : u \in Users}
    \cup {SaleRequest("cashier", FALSE, 1, 0, 0, <<Line(2, 1)>>),
          SaleRequest("cashier", TRUE, 3, 0, 0, <<Line(2, 1)>>),
          SaleRequest("cashier", TRUE, 1, 2, 0, <<Line(2, 1)>>),
          SaleRequest("cashier", TRUE, 1, 0, 0, <<>>)}

\* carts by a cashier at an existing branch
CartRequests ==
    {SaleRequest("cashier", TRUE, 1, c, 0, items) :
        c \in {0, 1},
        items \in {<<Line(1, 1)>>, <<Line(2, 1), Line(2, 1)>>}}
    \cup {SaleRequest("cashier", TRUE, 1, 0, 0, items) :
        items \in {<<Line(1, 1), Line(1, 1)>>, <<Line(1, 1), Line(2, 1)>>,
                   <<Line(1, InitStock + 1)>>,
                   <<Line(2, 1), Line(1, InitStock + 1)>>,
                   <<Line(3, 1)>>, <<Line(4, 1)>>, <<Line(1, 0)>>,
                   <<Line(0, 1)>>, <<Line(2, 1), Line(4, 1)>>}}
    \cup {SaleRequest("cashier", TRUE, 2, 0, 0, <<Line(2, 1), Line(1, 1)>>),
          SaleRequest("cashier", TRUE, 1, 0, 5, <<PricedLine>>)}

SaleRequests == HeaderRequests \cup CartRequests


----------------------------------------------------------------------------
(* Actions: one request, handled to its answer. *)

WithinBounds(db) ==
    /\ Len(db.sales) <= MaxSales
    /\ Len(db.movements) <= MaxMovements
    /\ Len(db.purchase_orders) <= MaxOrders

Store(db) ==
    /\ inventory' = db.inventory
    /\ movements' = db.movements
    /\ sales' = db.sales
    /\ sale_items' = db.sale_items
    /\ customers' = db.customers
    /\ loyalty' = db.loyalty
    /\ purchase_orders' = db.purchase_orders
    /\ po_items' = db.po_items
    /\ settings' = db.settings

Handle(op, req, r) ==
    /\ WithinBounds(r.db)
    /\ Store(r.db)
    /\ resp' = Answer(op, req, r.code, r.err)
    /\ UNCHANGED inflight

CreateSale ==
    \E req \in SaleRequests :
        Handle("create_sale", req, create_sale(DB, req.user, req))

RefundSale ==
    \E u \in {"cashier", "manager"}, sale_id \in 1..(MaxSales + 1) :
        Handle("refund_sale", [user |-> u, sale_id |-> sale_id],
               refund_sale(DB, u, sale_id))

\* requests to /inventory/adjust
AdjustRequest(u, f, p, b, t, q) ==
    [user |-> u, has_fields |-> f, product_id |-> p, branch_id |-> b,
     movement_type |-> t, quantity |-> q]

AdjustRequests ==
    {AdjustRequest("manager", TRUE, 1, 1, t, 1) :
        t \in {"IN", "OUT", "ADJUSTMENT", "RETURN"}}
    \cup {AdjustRequest("manager", TRUE, 1, 2, t, q) :
        t \in {"IN", "OUT", "RETURN"}, q \in {1}}
    \cup {AdjustRequest("manager", TRUE, 1, 2, "ADJUSTMENT", 2),
          AdjustRequest("manager", TRUE, 1, 1, "OUT", InitStock + 1),
          AdjustRequest("manager", TRUE, 1, 1, "IN", -1),
          AdjustRequest("manager", TRUE, 4, 1, "IN", 1),
          AdjustRequest("manager", TRUE, 1, 3, "IN", 1),
          AdjustRequest("manager", FALSE, 1, 1, "IN", 1),
          AdjustRequest("cashier", TRUE, 1, 1, "IN", 1)}

\* requests to /inventory/transfer
TransferRequest(u, f, p, a, b, q) ==
    [user |-> u, has_fields |-> f, product_id |-> p, from_branch_id |-> a,
     to_branch_id |-> b, quantity |-> q]

TransferRequests ==
    {TransferRequest("manager", TRUE, 1, 1, 2, q) :
        q \in {-1, 0, 1, InitStock + 1}}
    \cup {TransferRequest("manager", TRUE, 1, 2, 1, 1),
          TransferRequest("manager", TRUE, 2, 1, 2, 1),
          TransferRequest("manager", TRUE, 1, 1, 1, 1),
          TransferRequest("manager", TRUE, 4, 1, 2, 1),
          TransferRequest("manager", TRUE, 1, 1, 3, 1),
          TransferRequest("manager", FALSE, 1, 1, 2, 1),
          TransferRequest("cashier", TRUE, 1, 1, 2, 1)}

\* the second of the wall clock when transfer_ref is formatted
Clock == {1, 2}

AdjustStock ==
    \E req \in AdjustRequests :
        LET r == adjust_stock(DB, req.user, req)
        IN Len(r.db.movements) <= MaxStockMoves
           /\ Handle("adjust_stock", req, r)

TransferStock ==
    \E req \in TransferRequests, now \in Clock :
        LET r == transfer_stock(DB, req.user, req, now)
        IN Len(r.db.movements) <= MaxStockMoves
           /\ Handle("transfer_stock", req, r)

\* requests to /purchases
OrderItem(p, q, cost) == [product_id |-> p, ordered_quantity |-> q, unit_cost |-> cost]

OrderRequest(u, f, supplier, b, date, items) ==
    [user |-> u, has_fields |-> f, supplier_id |-> supplier, branch_id |-> b,
     expected_delivery_date |-> date, items |-> items]

OrderRequests ==
    {OrderRequest("manager", TRUE, 1, 1, NoDate, <<OrderItem(1, 2, 5)>>),
     OrderRequest("manager", TRUE, 1, 2, NoDate,
                  <<OrderItem(1, 1, 5), OrderItem(2, 1, 3)>>),
     OrderRequest("cashier", TRUE, 1, 1, NoDate, <<OrderItem(1, 2, 5)>>),
     OrderRequest("manager", FALSE, 1, 1, NoDate, <<OrderItem(1, 2, 5)>>),
     OrderRequest("manager", TRUE, 1, 1, NoDate, <<>>),
     OrderRequest("manager", TRUE, 2, 1, NoDate, <<OrderItem(1, 2, 5)>>),
     OrderRequest("manager", TRUE, 1, 3, NoDate, <<OrderItem(1, 2, 5)>>),
     OrderRequest("manager", TRUE, 1, 1, "Invalid", <<OrderItem(1, 2, 5)>>),
     OrderRequest("manager", TRUE, 1, 1, NoDate,
                  <<OrderItem(1, 2, 5), OrderItem(1, 0, 5)>>),
     OrderRequest("manager", TRUE, 1, 1, NoDate,
                  <<OrderItem(1, 2, 5), OrderItem(3, 1, 5)>>)}

\* ids of PUT and POST requests on one order: the orders there can be, and
\* one id past them
OrderIds == 1..(MaxOrders + 1)

UpdateRequests ==
    {[user |-> "manager", po_id |-> id, expected_delivery_date |-> NoDate,
      status |-> st] :
        id \in OrderIds,
        st \in {NoStatus, "Pending", "Approved", "Received", "Cancelled"}}
    \cup {[user |-> "manager", po_id |-> 1, expected_delivery_date |-> "Invalid",
           status |-> "Approved"],
          [user |-> "cashier", po_id |-> 1, expected_delivery_date |-> NoDate,
           status |-> "Approved"]}

Receipt(item_id, q) == [item_id |-> item_id, received_quantity |-> q]

ReceiveRequests ==
    {[user |-> "manager", po_id |-> id, items |-> items] :
        id \in OrderIds,
        items \in {<<Receipt(1, 1)>>, <<Receipt(1, 2)>>,
                   <<Receipt(1, 1), Receipt(2, 1)>>,
                   <<Receipt(1, 0)>>, <<>>}}
    \cup {[user |-> "cashier", po_id |-> 1, items |-> <<Receipt(1, 1)>>]}

CreateOrder ==
    \E req \in OrderRequests :
        Handle("create_purchase_order", req,
               create_purchase_order(DB, req.user, req))

UpdateOrder ==
    \E req \in UpdateRequests :
        Handle("update_purchase_order", req,
               update_purchase_order(DB, req.user, req))

ReceiveOrder ==
    \E req \in ReceiveRequests :
        LET r == receive_purchase_order(DB, req.user, req)
        IN Len(r.db.movements) <= MaxStockMoves
           /\ Handle("receive_purchase_order", req, r)

ApproveOrder ==
    \E u \in {"admin", "manager"}, id \in OrderIds :
        Handle("approve_purchase_order", [user |-> u, po_id |-> id],
               approve_purchase_order(DB, u, [user |-> u, po_id |-> id]))

CancelOrder ==
    \E u \in {"manager", "cashier"}, id \in OrderIds :
        Handle("cancel_purchase_order", [user |-> u, po_id |-> id],
               cancel_purchase_order(DB, u, [user |-> u, po_id |-> id]))

----------------------------------------------------------------------------
(* The state after construction: tables created and seeded. *)

\* init_db: one inventory row per seeded product at the main branch,
\* current_stock = 50 (InitStock here), reserved_stock = 0
SeedInventory ==
    <<[product_id |-> 1, branch_id |-> 1, current_stock |-> InitStock,
       reserved_stock |-> 0],
      [product_id |-> 2, branch_id |-> 1, current_stock |-> InitStock,
       reserved_stock |-> 0]>>

\* the LOYALTY_POINTS_RATE row: seeded '1.00' by main.py; an Admin may have
\* set it to '0' (routes/settings.py)
RateSettings == {<<1>>, <<0>>}

NoRequest == Answer("none", <<>>, 0, "")

\* the threads of the server (app.run serves each request in a thread of
\* its own) and a thread that serves no request
Threads == {1, 2}
Idle == [pc |-> "idle"]

Init ==
    /\ inventory = SeedInventory
    /\ movements = <<>>
    /\ sales = <<>>
    /\ sale_items = <<>>
    /\ customers = [c \in CustomerRows |-> [loyalty_points |-> 0, total_purchases |-> 0]]
    /\ loyalty = <<>>
    /\ purchase_orders = <<>>
    /\ po_items = <<>>
    /\ settings \in RateSettings
    /\ resp = NoRequest
    /\ inflight = [t \in Threads |-> Idle]

NextSale == CreateSale \/ RefundSale

SpecSale == Init /\ [][NextSale]_vars

\* the inventory routes, on the database as seeded
InitSeeded == Init /\ settings = <<1>>

NextStock == AdjustStock \/ TransferStock

SpecStock == InitSeeded /\ [][NextStock]_vars

\* the purchase-order routes, on the database as seeded
NextPurchase ==
    CreateOrder \/ UpdateOrder \/ ApproveOrder \/ ReceiveOrder \/ CancelOrder

SpecPurchase == InitSeeded /\ [][NextPurchase]_vars

----------------------------------------------------------------------------
(* Every route together, on the database as seeded: each handler with a    *)
(* few of its requests (one that it accepts, one by a role outside its     *)
(* gate, one that it refuses after the gate), and the rows written in one  *)
(* run capped over all tables together.                                    *)

RowsWritten == Len(sales) + Len(movements) + Len(purchase_orders)

Capped == RowsWritten' <= MaxRows

AnySaleRequests ==
    {SaleRequest(u, TRUE, 1, 0, 0, <<Line(2, 1)>>) : u \in Users}
    \cup {SaleRequest("cashier", TRUE, 1, 0, 0, <<Line(1, InitStock + 1)>>)}

AnyAdjustRequests ==
    {AdjustRequest("manager", TRUE, 1, 2, "ADJUSTMENT", 2),
     AdjustRequest("manager", TRUE, 1, 2, "OUT", 1),
     AdjustRequest("manager", TRUE, 1, 1, "IN", 1),
     AdjustRequest("cashier", TRUE, 1, 1, "IN", 1)}

AnyTransferRequests ==
    {TransferRequest("manager", TRUE, 1, 1, 2, 1),
     TransferRequest("manager", TRUE, 1, 1, 2, InitStock + 1),
     TransferRequest("cashier", TRUE, 1, 1, 2, 1)}

AnyOrderRequests ==
    {OrderRequest(u, TRUE, 1, 2, NoDate,
                  <<OrderItem(1, 1, 5), OrderItem(2, 1, 3)>>) :
        u \in {"manager", "cashier"}}

AnyUpdateRequests ==
    {[user |-> u, po_id |-> 1, expected_delivery_date |-> NoDate,
      status |-> "Approved"] : u \in {"manager", "cashier"}}

AnyReceiveRequests ==
    {[user |-> "manager", po_id |-> 1, items |-> items] :
        items \in {<<Receipt(1, 1), Receipt(2, 1)>>,
                   <<Receipt(1, 1), Receipt(3, 1)>>}}
    \cup {[user |-> "cashier", po_id |-> 1, items |-> <<Receipt(1, 1)>>]}

AnySale ==
    \E req \in AnySaleRequests :
        Handle("create_sale", req, create_sale(DB, req.user, req))
        /\ Capped

AnyRefund ==
    \E u \in {"cashier", "manager"}, sale_id \in {1, 2} :
        Handle("refund_sale", [user |-> u, sale_id |-> sale_id],
               refund_sale(DB, u, sale_id))
        /\ Capped

AnyAdjust ==
    \E req \in AnyAdjustRequests :
        Handle("adjust_stock", req, adjust_stock(DB, req.user, req))
        /\ Capped

AnyTransfer ==
    \E req \in AnyTransferRequests, now \in Clock :
        Handle("transfer_stock", req, transfer_stock(DB, req.user, req, now))
        /\ Capped

AnyOrder ==
    \E req \in AnyOrderRequests :
        Handle("create_purchase_order", req,
               create_purchase_order(DB, req.user, req))
        /\ Capped

AnyUpdate ==
    \E req \in AnyUpdateRequests :
        Handle("update_purchase_order", req,
               update_purchase_order(DB, req.user, req))
        /\ Capped

AnyApprove ==
    \E u \in {"admin", "manager"} :
        Handle("approve_purchase_order", [user |-> u, po_id |-> 1],
               approve_purchase_order(DB, u, [user |-> u, po_id |-> 1]))
        /\ Capped

AnyReceive ==
    \E req \in AnyReceiveRequests :
        Handle("receive_purchase_order", req,
               receive_purchase_order(DB, req.user, req))
        /\ Capped

AnyCancel ==
    \E u \in {"manager", "cashier"} :
        Handle("cancel_purchase_order", [user |-> u, po_id |-> 1],
               cancel_purchase_order(DB, u, [user |-> u, po_id |-> 1]))
        /\ Capped

Next ==
    \/ AnySale \/ AnyRefund \/ AnyAdjust \/ AnyTransfer
    \/ AnyOrder \/ AnyUpdate \/ AnyApprove \/ AnyReceive \/ AnyCancel

Spec == InitSeeded /\ [][Next]_vars

----------------------------------------------------------------------------
(* A database that already holds a sale with its EARNED row.  create_sale  *)
(* computes such a row (sales.py 236-247) but cannot commit one as long as *)
(* DecimalPlusFloat raises, so no behaviour of SpecSale contains it; the   *)
(* rows below are the ones that block writes for a one-line sale of        *)
(* product 1 to customer 1 at branch 1, taken as given in the database     *)
(* file, so that the EARNED branch of refund_sale is exercised.            *)

StoredLine == ValidatedItem(Line(1, 1))

StoredSale ==
    [sale_number |-> 1, customer_id |-> 1, branch_id |-> 1,
     sub_total |-> StoredLine.line_subtotal,
     tax_amount |-> Round2(StoredLine.tax_cc), discount_amount |-> 0,
     total_amount |-> Round2(StoredLine.line_total_cc),
     payment_status |-> "Completed"]

\* the tables after that sale, booked at loyalty rate `rate` for a customer
\* who held `points` points
EarnedDatabase(rate, points) ==
    LET stock == update_inventory_after_sale(SeedInventory, <<>>,
                                             <<StoredLine>>, 1)
        points_earned == PointsEarned(StoredLine.line_total_cc, rate)
    IN [inventory |-> stock.inventory, movements |-> stock.movements,
        sales |-> <<StoredSale>>,
        sale_items |-> <<SaleItemRow(1, StoredLine)>>,
        customers |-> [c \in CustomerRows |->
                          [loyalty_points |-> points + points_earned,
                           total_purchases |-> StoredSale.total_amount]],
        loyalty |-> <<[customer_id |-> 1, sale_id |-> 1,
                       transaction_type |-> "EARNED",
                       points |-> points_earned]>>,
        purchase_orders |-> <<>>, po_items |-> <<>>]

InitStored ==
    /\ \E rate \in {1, 2}, points \in {0, 3} :
           LET db == EarnedDatabase(rate, points)
           IN /\ inventory = db.inventory
              /\ movements = db.movements
              /\ sales = db.sales
              /\ sale_items = db.sale_items
              /\ customers = db.customers
              /\ loyalty = db.loyalty
              /\ purchase_orders = db.purchase_orders
              /\ po_items = db.po_items
    /\ settings \in RateSettings
    /\ resp = NoRequest
    /\ inflight = [t \in Threads |-> Idle]

SpecStored == InitStored /\ [][NextSale]_vars

----------------------------------------------------------------------------
(* The routes that write loyalty points: sales, refunds and the manual     *)
(* adjustment, from a customer with 0 points and an empty log.             *)

\* sales of one unit of product 1 at branch 1, with and without the customer
LoyaltySaleRequests ==
    {SaleRequest("cashier", TRUE, 1, c, 0, <<Line(1, 1)>>) : c \in {0, 1}}

LoyaltyRequest(u, c, f, points) ==
    [user |-> u, customer_id |-> c, has_points |-> f, points |-> points]

\* requests to /customers/<id>/loyalty/adjust
LoyaltyRequests ==
    {LoyaltyRequest("admin", 1, TRUE, points) : points \in {-1, 2}}
    \cup {LoyaltyRequest("admin", 2, TRUE, 1),
          LoyaltyRequest("admin", 1, FALSE, 0),
          LoyaltyRequest("manager", 1, TRUE, 1)}

LoyaltySale ==
    \E req \in LoyaltySaleRequests :
        Handle("create_sale", req, create_sale(DB, req.user, req))

AdjustLoyalty ==
    \E req \in LoyaltyRequests :
        LET r == adjust_loyalty_points(DB, req.user, req)
        IN Len(r.db.loyalty) <= MaxLoyalty
           /\ Handle("adjust_loyalty_points", req, r)

NextLoyalty == LoyaltySale \/ RefundSale \/ AdjustLoyalty

SpecLoyalty == Init /\ [][NextLoyalty]_vars

----------------------------------------------------------------------------
(* Two requests in flight (SpecConcurrent).                                *)
(*                                                                         *)
(* app.run serves every request in a thread of its own, each with its own  *)
(* session and its own SQLite connection.  A SELECT outside a transaction  *)
(* takes no lock that outlives it; the first INSERT or UPDATE of a session *)
(* opens the writing transaction, which SQLite grants to one connection at *)
(* a time until its commit.  A sale or a refund is therefore two steps:    *)
(* the reads and checks up to its first write, and the writes up to the    *)
(* commit.  No route asks for a lock (no with_for_update, no version       *)
(* column), so the steps of two requests interleave freely.                *)

\* after the validation loop the name `inventory` of create_sale still
\* refers to the row read for the last line of the cart: the session keeps
\* that object, and update_inventory_after_sale gets it back from the
\* identity map with the current_stock it was loaded with
held_row(loaded, req) ==
    InvFirst(loaded, req.items[Len(req.items)].product_id, req.branch_id)

\* the inventory rows a sale works on at its writes: the row it holds as
\* read at the check, every other row as stored now
session_inventory(loaded, now, req) ==
    [i \in 1..Len(now) |->
        IF i = held_row(loaded, req) THEN loaded[i] ELSE now[i]]

\* the Sale object a refund loaded at its check, in place of the stored row
session_sale(db, sale_id, loaded) == [db EXCEPT !.sales[sale_id] = loaded]

\* sales of one line of product 1 at branch 1, without a customer
ConcurrentSaleRequests ==
    {SaleRequest("cashier", TRUE, 1, 0, 0, <<Line(1, q)>>) :
        q \in {1, InitStock, InitStock + 1}}

ConcurrentRefundRequests ==
    {[user |-> "cashier", sale_id |-> sale_id] : sale_id \in 1..MaxSales}

\* the answers create_sale and refund_sale return before their first write
Refusals == {400, 403, 404}

Serving(t, op) == inflight[t].pc = "checked" /\ inflight[t].op = op

\* create_sale up to db.session.add(sale): the role, the fields and the
\* stock check of every line, on the rows as stored now
BeginSale ==
    \E t \in Threads, req \in ConcurrentSaleRequests :
        LET r == create_sale(DB, req.user, req) IN
        /\ inflight[t] = Idle
        /\ IF r.code \in Refusals
           THEN /\ resp' = Answer("create_sale", req, r.code, r.err)
                /\ UNCHANGED <<stored, inflight>>
           ELSE /\ inflight' = [inflight EXCEPT ![t] =
                                  [pc |-> "checked", op |-> "create_sale",
                                   req |-> req, loaded |-> inventory]]
                /\ UNCHANGED <<stored, resp>>

\* create_sale from db.session.flush() to db.session.commit()
CommitSale ==
    \E t \in Threads :
        /\ Serving(t, "create_sale")
        /\ LET req == inflight[t].req
               session == [DB EXCEPT !.inventory =
                              session_inventory(inflight[t].loaded,
                                                inventory, req)]
               r == create_sale(session, req.user, req)
           IN /\ r.code \notin Refusals
              /\ IF r.code = 201
                 THEN WithinBounds(r.db) /\ Store(r.db)
                 ELSE UNCHANGED stored
              /\ resp' = Answer("create_sale", req, r.code, r.err)
        /\ inflight' = [inflight EXCEPT ![t] = Idle]

\* refund_sale up to sale.payment_status = 'Refunded': the role, the sale
\* and the already-refunded check
BeginRefund ==
    \E t \in Threads, req \in ConcurrentRefundRequests :
        LET r == refund_sale(DB, req.user, req.sale_id) IN
        /\ inflight[t] = Idle
        /\ IF r.code \in Refusals
           THEN /\ resp' = Answer("refund_sale", req, r.code, r.err)
                /\ UNCHANGED <<stored, inflight>>
           ELSE /\ inflight' = [inflight EXCEPT ![t] =
                                  [pc |-> "checked", op |-> "refund_sale",
                                   req |-> req, loaded |-> sales[req.sale_id]]]
                /\ UNCHANGED <<stored, resp>>

\* refund_sale from the flush of the sale row (before sale.items is read)
\* to db.session.commit(): stock and loyalty rows are read here
CommitRefund ==
    \E t \in Threads :
        /\ Serving(t, "refund_sale")
        /\ LET req == inflight[t].req
               r == refund_sale(session_sale(DB, req.sale_id, inflight[t].loaded),
                                req.user, req.sale_id)
           IN /\ r.code = 200
              /\ WithinBounds(r.db)
              /\ Store(r.db)
              /\ resp' = Answer("refund_sale", req, r.code, r.err)
        /\ inflight' = [inflight EXCEPT ![t] = Idle]

\* the writing transaction is not granted within the connection's timeout
\* ("database is locked"): except Exception: rollback, 500
Busy ==
    \E t \in Threads :
        /\ inflight[t].pc = "checked"
        /\ resp' = Answer(inflight[t].op, inflight[t].req, 500, "DatabaseLocked")
        /\ inflight' = [inflight EXCEPT ![t] = Idle]
        /\ UNCHANGED stored

NextConcurrent ==
    BeginSale \/ CommitSale \/ BeginRefund \/ CommitRefund \/ Busy

SpecConcurrent == InitSeeded /\ [][NextConcurrent]_vars

----------------------------------------------------------------------------
(* Vocabulary of the properties. *)

AllProducts == Products \cup {4}

RowsOf(inv, p, b) ==
    {i \in 1..Len(inv) : inv[i].product_id = p /\ inv[i].branch_id = b}

RECURSIVE SumOver(_, _)
SumOver(f, S) ==
    IF S = {} THEN 0
    ELSE LET x == CHOOSE y \in S : TRUE IN f[x] + SumOver(f, S \ {x})

\* current_stock booked for (p, b), over every row of the pair
StockOf(inv, p, b) ==
    SumOver([i \in 1..Len(inv) |-> inv[i].current_stock], RowsOf(inv, p, b))

\* quantity of product p over the lines of a cart or the items of a sale
QuantityOf(items, p) ==
    SumOver([j \in 1..Len(items) |-> items[j].quantity],
            {j \in 1..Len(items) : items[j].product_id = p})

\* the log grew by exactly n rows and kept every earlier row
Appended(old, new, n) ==
    /\ Len(new) = Len(old) + n
    /\ SubSeq(new, 1, Len(old)) = old

\* a request the gate and the header checks of create_sale let through
SaleHeaderOk(req) ==
    /\ UserRole[req.user] \in {"Admin", "Cashier"}
    /\ req.has_total_amount
    /\ req.items # <<>>
    /\ req.branch_id \in Branches
    /\ req.customer_id \in {0} \cup CustomerRows

LineSellable(line) ==
    /\ line.quantity > 0
    /\ line.product_id \in Products
    /\ ProductTable[line.product_id].is_active

\* the (product, branch) row is missing or holds less than the line asks for
LineShort(inv, line, b) ==
    \/ RowsOf(inv, line.product_id, b) = {}
    \/ \E i \in RowsOf(inv, line.product_id, b) :
           inv[i].current_stock - inv[i].reserved_stock < line.quantity

\* line k is short and every earlier line is sellable and in stock
ShortAt(inv, req, k) ==
    /\ k \in 1..Len(req.items)
    /\ LineSellable(req.items[k])
    /\ LineShort(inv, req.items[k], req.branch_id)
    /\ \A j \in 1..(k - 1) : /\ LineSellable(req.items[j])
                             /\ ~LineShort(inv, req.items[j], req.branch_id)

----------------------------------------------------------------------------
(* C1: a create_sale whose cart has a short line (row missing, or          *)
(* available_stock below the line quantity; the lines before it valid)     *)
(* is refused with 400 insufficient stock and the stored state (sales,     *)
(* items, inventory, movements, customers) is the one before the request.  *)

C1_ShortLineStep ==
    /\ resp'.op = "create_sale"
    /\ SaleHeaderOk(resp'.req)
    /\ \E k \in 1..Len(resp'.req.items) : ShortAt(inventory, resp'.req, k)

C1_InsufficientStockAborts ==
    [][C1_ShortLineStep =>
          /\ resp'.code = 400
          /\ resp'.err = "InsufficientStock"
          /\ UNCHANGED stored]_vars

\* a refused cart whose second line is the short one, after a sale was booked
C1_Witness ==
    /\ resp.op = "create_sale"
    /\ resp.err = "InsufficientStock"
    /\ SaleHeaderOk(resp.req)
    /\ ShortAt(inventory, resp.req, 2)
    /\ Len(sales) >= 1

----------------------------------------------------------------------------
(* C2: create_sale is all-or-nothing.  A create_sale request either leaves *)
(* the stored state as it was (every answer but 201, among them the 500    *)
(* raised after the sale header, the items and the stock changes were      *)
(* written), or it stores the header, one item per cart line, one OUT      *)
(* movement per line and the stock decrements together; in every state     *)
(* each sale has its items, each item its sale, and there are as many OUT  *)
(* movements as sale items.                                                *)

C2_Whole ==
    /\ \A s \in 1..Len(sales) : ItemsOf(sale_items, s) # <<>>
    /\ \A j \in 1..Len(sale_items) : sale_items[j].sale_id \in 1..Len(sales)
    /\ Cardinality({m \in 1..Len(movements) : movements[m].movement_type = "OUT"})
         = Len(sale_items)
    /\ \A e \in 1..Len(loyalty) :
           loyalty[e].transaction_type = "EARNED" =>
               /\ loyalty[e].sale_id \in 1..Len(sales)
               /\ sales[loyalty[e].sale_id].customer_id = loyalty[e].customer_id

C2_AllBooked ==
    LET req == resp'.req
        n == Len(req.items)
    IN /\ Appended(sales, sales', 1)
       /\ Appended(sale_items, sale_items', n)
       /\ Appended(movements, movements', n)
       /\ \A p \in AllProducts, b \in Branches :
              StockOf(inventory', p, b) =
                  StockOf(inventory, p, b)
                  - (IF b = req.branch_id THEN QuantityOf(req.items, p) ELSE 0)

C2_AllOrNothing ==
    /\ []C2_Whole
    /\ [][resp'.op = "create_sale" =>
             \/ resp'.code # 201 /\ UNCHANGED stored
             \/ resp'.code = 201 /\ C2_AllBooked]_vars

\* the request failed after the header was inserted (500), with a sale already
\* stored: nothing of the failed sale is there
C2_Witness ==
    /\ resp.op = "create_sale"
    /\ resp.code = 500
    /\ Len(sales) = 1
    /\ Len(sale_items) = Len(ItemsOf(sale_items, 1))

----------------------------------------------------------------------------
(* C3: a successful create_sale lowers current_stock of the (product, sale *)
(* branch) row by the line quantity for every cart line and appends one    *)
(* OUT movement with minus the line quantity per line; no other inventory  *)
(* row changes and no row is added.                                        *)

C3_StockAndMovements ==
    LET req == resp'.req
        n == Len(req.items)
    IN /\ Len(inventory') = Len(inventory)
       /\ \A i \in 1..Len(inventory) :
              LET r == inventory[i]
              IN inventory'[i] =
                   [r EXCEPT !.current_stock =
                       r.current_stock
                       - (IF r.branch_id = req.branch_id
                          THEN QuantityOf(req.items, r.product_id) ELSE 0)]
       /\ Appended(movements, movements', n)
       /\ \A j \in 1..n :
              LET m == movements'[Len(movements) + j]
              IN /\ m.movement_type = "OUT"
                 /\ m.product_id = req.items[j].product_id
                 /\ m.branch_id = req.branch_id
                 /\ m.quantity = -req.items[j].quantity

C3_SaleDecrementsStock ==
    [][(resp'.op = "create_sale" /\ resp'.code = 201) => C3_StockAndMovements]_vars

\* a booked cart of two lines
C3_Witness ==
    /\ resp.op = "create_sale"
    /\ resp.code = 201
    /\ Len(resp.req.items) = 2
    /\ Len(movements) >= 2
    /\ StockOf(inventory, 1, 1) < InitStock

----------------------------------------------------------------------------
(* C4: for every stored sale, total_amount = sum of its items' line_total  *)
(* - discount_amount, sub_total = sum of (unit_price * quantity - item     *)
(* discount), each item's line_total = unit_price * quantity - discount +  *)
(* tax_amount with tax_amount the tax of the line (at the two decimals of  *)
(* the column), and unit_price is the selling price when none was given.   *)

ItemNet(it) == it.unit_price * it.quantity - it.discount_amount

C4_ItemOk(it) ==
    /\ it.line_total = ItemNet(it) + it.tax_amount
    /\ it.tax_amount = Round2(ItemNet(it) * ProductTable[it.product_id].tax_rate)

C4_SaleTotals ==
    \A s \in 1..Len(sales) :
        LET its == ItemsOf(sale_items, s)
        IN /\ sales[s].total_amount =
                SumSeq([j \in 1..Len(its) |-> its[j].line_total])
                - sales[s].discount_amount
           /\ sales[s].sub_total = SumSeq([j \in 1..Len(its) |-> ItemNet(its[j])])
           /\ \A j \in 1..Len(its) : C4_ItemOk(its[j])

----------------------------------------------------------------------------
(* C5: an accepted refund of a sale that is not yet refunded marks it      *)
(* Refunded, raises current_stock of each line's (product, sale branch)    *)
(* row by the sold quantity and appends one IN movement per line; a refund *)
(* of a refunded sale is refused with 400 and changes nothing; Refunded is *)
(* never left.                                                             *)

C5_RefundStep ==
    /\ resp'.op = "refund_sale"
    /\ UserRole[resp'.req.user] \in {"Admin", "Cashier"}
    /\ resp'.req.sale_id \in 1..Len(sales)

C5_Restored ==
    LET id == resp'.req.sale_id
        its == ItemsOf(sale_items, id)
    IN /\ resp'.code = 200
       /\ sales'[id].payment_status = "Refunded"
       /\ Len(inventory') = Len(inventory)
       /\ \A i \in 1..Len(inventory) :
              LET r == inventory[i]
              IN inventory'[i] =
                   [r EXCEPT !.current_stock =
                       r.current_stock
                       + (IF r.branch_id = sales[id].branch_id
                          THEN QuantityOf(its, r.product_id) ELSE 0)]
       /\ Appended(movements, movements', Len(its))
       /\ \A j \in 1..Len(its) :
              LET m == movements'[Len(movements) + j]
              IN /\ m.movement_type = "IN"
                 /\ m.product_id = its[j].product_id
                 /\ m.branch_id = sales[id].branch_id
                 /\ m.quantity = its[j].quantity

C5_RefundOnce ==
    /\ [][C5_RefundStep =>
             IF sales[resp'.req.sale_id].payment_status = "Refunded"
             THEN resp'.code = 400 /\ UNCHANGED stored
             ELSE C5_Restored]_vars
    /\ [][\A s \in 1..Len(sales) :
             sales[s].payment_status = "Refunded" =>
                 sales'[s].payment_status = "Refunded"]_vars

\* the second refund of a sale was refused: the stock is the seeded one again
C5_Witness ==
    /\ resp.op = "refund_sale"
    /\ resp.code = 400
    /\ resp.req.sale_id \in 1..Len(sales)
    /\ sales[resp.req.sale_id].payment_status = "Refunded"
    /\ \E m \in 1..Len(movements) : movements[m].movement_type = "IN"

----------------------------------------------------------------------------
(* C6: an accepted refund of a sale with a customer: when the loyalty log  *)
(* holds an EARNED row for that sale, the customer's loyalty_points drop   *)
(* by that row's points, total_purchases drops by the sale's total_amount  *)
(* and one ADJUSTED row with minus those points is appended; when it holds *)
(* none, customers and the loyalty log are unchanged.                      *)

C6_RefundStep ==
    /\ resp'.op = "refund_sale"
    /\ resp'.code = 200
    /\ sales[resp'.req.sale_id].customer_id # 0

C6_EarnedRows(log, c, id) ==
    {i \in 1..Len(log) : /\ log[i].customer_id = c
                         /\ log[i].sale_id = id
                         /\ log[i].transaction_type = "EARNED"}

C6_Reversed ==
    LET id == resp'.req.sale_id
        c == sales[id].customer_id
        earned == C6_EarnedRows(loyalty, c, id)
    IN IF earned = {}
       THEN UNCHANGED <<customers, loyalty>>
       ELSE \E i \in earned :
              /\ customers'[c].loyalty_points =
                     customers[c].loyalty_points - loyalty[i].points
              /\ customers'[c].total_purchases =
                     customers[c].total_purchases - sales[id].total_amount
              /\ \A o \in DOMAIN customers \ {c} : customers'[o] = customers[o]
              /\ Appended(loyalty, loyalty', 1)
              /\ loyalty'[Len(loyalty')] =
                     [customer_id |-> c, sale_id |-> id,
                      transaction_type |-> "ADJUSTED",
                      points |-> -loyalty[i].points]

C6_RefundReversesLoyalty == [][C6_RefundStep => C6_Reversed]_vars

\* the sale with the EARNED row was refunded: the points it earned are gone
\* and the log ends with the ADJUSTED row
C6_Witness ==
    /\ resp.op = "refund_sale"
    /\ resp.code = 200
    /\ sales[resp.req.sale_id].customer_id # 0
    /\ C6_EarnedRows(loyalty, sales[resp.req.sale_id].customer_id,
                     resp.req.sale_id) # {}
    /\ loyalty[Len(loyalty)].transaction_type = "ADJUSTED"
    /\ loyalty[Len(loyalty)].points < 0
    /\ customers[sales[resp.req.sale_id].customer_id].total_purchases = 0

----------------------------------------------------------------------------
(* C7: an accepted transfer of q units of product p from branch A to       *)
(* branch B lowers the current_stock of (p, A) by q, raises that of (p, B) *)
(* by q, on one row that is created when absent, keeps the product's total *)
(* over all branches and every other row, and appends exactly two TRANSFER *)
(* movements, -q at A then +q at B, with one and the same reference.       *)

C7_TransferStep ==
    /\ resp'.op = "transfer_stock"
    /\ resp'.code = 200

C7_TotalOf(inv, p) ==
    SumOver([i \in 1..Len(inv) |-> inv[i].current_stock],
            {i \in 1..Len(inv) : inv[i].product_id = p})

C7_Moved ==
    LET req == resp'.req
        p == req.product_id
        A == req.from_branch_id
        B == req.to_branch_id
        q == req.quantity
        n == Len(movements)
    IN /\ StockOf(inventory', p, A) = StockOf(inventory, p, A) - q
       /\ StockOf(inventory', p, B) = StockOf(inventory, p, B) + q
       /\ Cardinality(RowsOf(inventory', p, B)) = 1
       /\ Len(inventory') =
              Len(inventory) + (IF RowsOf(inventory, p, B) = {} THEN 1 ELSE 0)
       /\ C7_TotalOf(inventory', p) = C7_TotalOf(inventory, p)
       /\ \A i \in 1..Len(inventory) :
              ~(inventory[i].product_id = p /\ inventory[i].branch_id \in {A, B})
                  => inventory'[i] = inventory[i]
       /\ Appended(movements, movements', 2)
       /\ movements'[n + 1].movement_type = "TRANSFER"
       /\ movements'[n + 1].product_id = p
       /\ movements'[n + 1].branch_id = A
       /\ movements'[n + 1].quantity = -q
       /\ movements'[n + 2].movement_type = "TRANSFER"
       /\ movements'[n + 2].product_id = p
       /\ movements'[n + 2].branch_id = B
       /\ movements'[n + 2].quantity = q
       /\ movements'[n + 1].reference = movements'[n + 2].reference

C7_TransferMovesStock == [][C7_TransferStep => C7_Moved]_vars

\* one unit was transferred to a branch that had no row of the product
C7_Witness ==
    /\ resp.op = "transfer_stock"
    /\ resp.code = 200
    /\ resp.req.quantity = 1
    /\ Len(movements) = 2
    /\ Len(inventory) = Len(SeedInventory) + 1
    /\ inventory[Len(inventory)].branch_id = resp.req.to_branch_id
    /\ inventory[Len(inventory)].current_stock = 1

----------------------------------------------------------------------------
(* C8: a transfer whose source and destination branch are the same, or     *)
(* whose source row is missing or has available_stock below the requested  *)
(* quantity, is rejected and every table is unchanged: no row changed or   *)
(* created, no movement appended.                                          *)

C8_RefusedStep ==
    LET req == resp'.req
        rows == RowsOf(inventory, req.product_id, req.from_branch_id)
    IN /\ resp'.op = "transfer_stock"
       /\ UserRole[req.user] \in {"Admin", "InventoryManager"}
       /\ req.has_fields
       /\ \/ req.from_branch_id = req.to_branch_id
          \/ rows = {}
          \/ \E i \in rows :
                 inventory[i].current_stock - inventory[i].reserved_stock
                     < req.quantity

C8_TransferRejected ==
    [][C8_RefusedStep => resp'.code \in {400, 404} /\ UNCHANGED stored]_vars

\* a transfer of more than the source row holds was refused
C8_Witness ==
    /\ resp.op = "transfer_stock"
    /\ resp.code = 400
    /\ resp.err = "InsufficientStock"
    /\ \E i \in RowsOf(inventory, resp.req.product_id, resp.req.from_branch_id) :
           /\ inventory[i].current_stock > 0
           /\ inventory[i].current_stock < resp.req.quantity
    /\ RowsOf(inventory, resp.req.product_id, resp.req.to_branch_id) = {}

----------------------------------------------------------------------------
(* C9: adjust_stock with quantity n on the row of (product, branch) with   *)
(* stock s (s = 0 and the row is created when absent): IN sets the stock   *)
(* to s + n; OUT sets it to s - n, or is refused and changes nothing when  *)
(* s < n; ADJUSTMENT sets it to n; any other type is refused and changes   *)
(* nothing; every accepted call appends exactly one movement.              *)

C9_AdjustStep ==
    LET req == resp'.req
    IN /\ resp'.op = "adjust_stock"
       /\ UserRole[req.user] \in {"Admin", "InventoryManager"}
       /\ req.has_fields
       /\ req.product_id \in Products
       /\ req.branch_id \in Branches

C9_Set(n) ==
    LET req == resp'.req
    IN /\ resp'.code = 200
       /\ Cardinality(RowsOf(inventory', req.product_id, req.branch_id)) = 1
       /\ StockOf(inventory', req.product_id, req.branch_id) = n
       /\ \A i \in 1..Len(inventory) :
              ~(inventory[i].product_id = req.product_id
                /\ inventory[i].branch_id = req.branch_id)
                  => inventory'[i] = inventory[i]
       /\ Appended(movements, movements', 1)
       /\ movements'[Len(movements')].product_id = req.product_id
       /\ movements'[Len(movements')].branch_id = req.branch_id
       /\ movements'[Len(movements')].movement_type = req.movement_type

C9_Refused == resp'.code = 400 /\ UNCHANGED stored

C9_Adjusted ==
    LET req == resp'.req
        s == StockOf(inventory, req.product_id, req.branch_id)
        n == req.quantity
    IN IF req.movement_type = "IN" THEN C9_Set(s + n)
       ELSE IF req.movement_type = "OUT"
       THEN IF s < n THEN C9_Refused ELSE C9_Set(s - n)
       ELSE IF req.movement_type = "ADJUSTMENT" THEN C9_Set(n)
       ELSE C9_Refused

C9_AdjustStock == [][C9_AdjustStep => C9_Adjusted]_vars

\* an ADJUSTMENT on a pair without a row created the row at the given value
C9_Witness ==
    /\ resp.op = "adjust_stock"
    /\ resp.code = 200
    /\ resp.req.movement_type = "ADJUSTMENT"
    /\ Len(movements) = 1
    /\ Len(inventory) = Len(SeedInventory) + 1
    /\ inventory[Len(inventory)].current_stock = resp.req.quantity

----------------------------------------------------------------------------
(* C10: over any sequence of purchase-order requests the status of an      *)
(* order changes only along Pending -> Approved, Approved -> Received,     *)
(* Pending -> Cancelled or Approved -> Cancelled; a request for any other  *)
(* change fails and leaves the status as it was.                           *)

C10_Allowed ==
    {<<"Pending", "Approved">>, <<"Approved", "Received">>,
     <<"Pending", "Cancelled">>, <<"Approved", "Cancelled">>}

C10_StatusTransitions ==
    [][\A o \in 1..Len(purchase_orders) :
          purchase_orders'[o].status # purchase_orders[o].status
              => <<purchase_orders[o].status, purchase_orders'[o].status>>
                     \in C10_Allowed]_vars

----------------------------------------------------------------------------
(* C11: in every reachable state, each item of a purchase order whose      *)
(* status is Received has received_quantity >= ordered_quantity.           *)

C11_ReceivedIsComplete ==
    \A o \in 1..Len(purchase_orders) :
        purchase_orders[o].status = "Received"
            => \A i \in 1..Len(po_items) :
                   po_items[i].purchase_order_id = o
                       => po_items[i].received_quantity
                              >= po_items[i].ordered_quantity

----------------------------------------------------------------------------
(* C12: a receive request on an Approved order leaves the order Received   *)
(* when every item of the order then has received_quantity >=              *)
(* ordered_quantity and Approved when an item is still short; an accepted  *)
(* request adds its positive quantities to the received quantities, so     *)
(* repeated requests accumulate until the order is complete.               *)

C12_ReceiveStep ==
    /\ resp'.op = "receive_purchase_order"
    /\ resp'.req.po_id \in 1..Len(purchase_orders)
    /\ purchase_orders[resp'.req.po_id].status = "Approved"

\* what the request adds to item i: its entries with a positive quantity
C12_Delivered(req, i) ==
    SumOver([k \in 1..Len(req.items) |-> req.items[k].received_quantity],
            {k \in 1..Len(req.items) :
                req.items[k].item_id = i /\ req.items[k].received_quantity > 0})

C12_Complete(items, o) ==
    \A i \in 1..Len(items) :
        items[i].purchase_order_id = o
            => items[i].received_quantity >= items[i].ordered_quantity

C12_Received ==
    LET o == resp'.req.po_id
    IN /\ purchase_orders'[o].status =
              (IF C12_Complete(po_items', o) THEN "Received" ELSE "Approved")
       /\ Len(po_items') = Len(po_items)
       /\ \A i \in 1..Len(po_items) :
              po_items'[i].received_quantity =
                  po_items[i].received_quantity
                  + (IF resp'.code = 200 THEN C12_Delivered(resp'.req, i) ELSE 0)

C12_ReceiveCompletes == [][C12_ReceiveStep => C12_Received]_vars

\* an order of two units was completed by two receipts of one unit
C12_Witness ==
    /\ resp.op = "receive_purchase_order"
    /\ resp.code = 200
    /\ resp.req.items = <<Receipt(1, 1)>>
    /\ purchase_orders[resp.req.po_id].status = "Received"
    /\ po_items[1].ordered_quantity = 2
    /\ po_items[1].received_quantity = 2
    /\ Len(movements) = 2

----------------------------------------------------------------------------
(* C13: a purchase order that is Received or Cancelled never changes       *)
(* again: update, approve, receive and cancel requests on it are refused   *)
(* and leave its status, the received quantities of its items, inventory   *)
(* and movements as they were.                                             *)

C13_Terminal(o) == purchase_orders[o].status \in {"Received", "Cancelled"}

C13_OnTerminalStep ==
    /\ resp'.op \in {"update_purchase_order", "approve_purchase_order",
                     "receive_purchase_order", "cancel_purchase_order"}
    /\ resp'.req.po_id \in 1..Len(purchase_orders)
    /\ C13_Terminal(resp'.req.po_id)

C13_TerminalIsFinal ==
    /\ [][C13_OnTerminalStep =>
             resp'.code \in {400, 403} /\ UNCHANGED stored]_vars
    /\ [][\A o \in 1..Len(purchase_orders) :
             C13_Terminal(o) =>
                 /\ purchase_orders'[o] = purchase_orders[o]
                 /\ \A i \in 1..Len(po_items) :
                        po_items[i].purchase_order_id = o
                            => po_items'[i] = po_items[i]]_vars

\* a cancel request on an order that was received in full was refused
C13_Witness ==
    /\ resp.op = "cancel_purchase_order"
    /\ resp.code = 400
    /\ resp.req.po_id \in 1..Len(purchase_orders)
    /\ purchase_orders[resp.req.po_id].status = "Received"
    /\ \E m \in 1..Len(movements) : movements[m].reference.kind = "PO"

----------------------------------------------------------------------------
(* C14: a request to a gated route by a user whose role is outside the     *)
(* route's set answers 403 and changes no table.  create_sale and          *)
(* refund_sale admit Admin and Cashier; adjust_stock, transfer_stock and   *)
(* create, update, receive and cancel of a purchase order admit Admin and  *)
(* InventoryManager; approve_purchase_order admits Admin only.             *)

C14_Gate ==
    [op \in {"create_sale", "refund_sale"} |-> {"Admin", "Cashier"}]
    @@ [op \in {"adjust_stock", "transfer_stock", "create_purchase_order",
                "update_purchase_order", "receive_purchase_order",
                "cancel_purchase_order"} |-> {"Admin", "InventoryManager"}]
    @@ [op \in {"approve_purchase_order"} |-> {"Admin"}]

C14_Outside(answer) ==
    /\ answer.op \in DOMAIN C14_Gate
    /\ UserRole[answer.req.user] \notin C14_Gate[answer.op]

C14_RoleGate ==
    [][C14_Outside(resp') => resp'.code = 403 /\ UNCHANGED stored]_vars

\* an InventoryManager asked to approve a Pending order and was refused
C14_Witness ==
    /\ resp.op = "approve_purchase_order"
    /\ resp.code = 403
    /\ UserRole[resp.req.user] = "InventoryManager"
    /\ Len(purchase_orders) >= resp.req.po_id
    /\ purchase_orders[resp.req.po_id].status = "Pending"

----------------------------------------------------------------------------
(* C15: a create_sale request by an authorised user that carries the       *)
(* branch_id of an existing branch, payment_method and a non-empty list of *)
(* lines, all for active products in sufficient stock, and no other field, *)
(* is answered 201 and the sale is booked.                                 *)

C15_MinimalRequest(req) ==
    /\ UserRole[req.user] \in {"Admin", "Cashier"}
    /\ req.branch_id \in Branches
    /\ ~req.has_total_amount
    /\ req.customer_id = 0
    /\ req.discount_amount = 0
    /\ req.items # <<>>
    /\ \A k \in 1..Len(req.items) :
           /\ LineSellable(req.items[k])
           /\ req.items[k].unit_price = NoPrice
           /\ req.items[k].discount_amount = 0
    /\ \A p \in Products :
           QuantityOf(req.items, p) <= StockOf(inventory, p, req.branch_id)
    /\ \A k \in 1..Len(req.items) :
           RowsOf(inventory, req.items[k].product_id, req.branch_id) # {}

C15_MinimalSaleAccepted ==
    [][resp'.op = "create_sale" /\ C15_MinimalRequest(resp'.req)
         => resp'.code = 201 /\ Len(sales') = Len(sales) + 1]_vars

----------------------------------------------------------------------------
(* C16: create_sale with a customer computes points_earned =               *)
(* floor(total_amount * loyalty_rate), the rate being 1 when the           *)
(* LOYALTY_POINTS_RATE setting is absent.  When points_earned > 0 the      *)
(* customer's loyalty_points rise by points_earned, total_purchases rises  *)
(* by total_amount and one EARNED row with those points is appended for    *)
(* the sale; when points_earned <= 0, or without a customer, customers and *)
(* the loyalty log are unchanged.                                          *)

\* total_amount of the request, in hundredths of a cent
C16_Total(req) ==
    SumOver([k \in 1..Len(req.items) |->
                LET line == req.items[k]
                    product == ProductTable[line.product_id]
                    price == IF line.unit_price = NoPrice
                             THEN product.selling_price ELSE line.unit_price[1]
                    net == price * line.quantity - line.discount_amount
                IN net * 100 + net * product.tax_rate],
            1..Len(req.items))
    - req.discount_amount * 100

C16_Points(req) ==
    (C16_Total(req) * (IF settings = NoSetting THEN 1 ELSE settings[1]))
        \div 10000

\* a request that passes every check of create_sale
C16_Sellable(req) ==
    /\ SaleHeaderOk(req)
    /\ req.items # <<>>
    /\ \A k \in 1..Len(req.items) :
           /\ LineSellable(req.items[k])
           /\ RowsOf(inventory, req.items[k].product_id, req.branch_id) # {}
    /\ \A p \in Products :
           QuantityOf(req.items, p) <= StockOf(inventory, p, req.branch_id)

C16_Awarded(req) ==
    LET c == req.customer_id
    IN /\ resp'.code = 201
       /\ customers'[c].loyalty_points =
              customers[c].loyalty_points + C16_Points(req)
       /\ customers'[c].total_purchases =
              customers[c].total_purchases + Round2(C16_Total(req))
       /\ loyalty' = Append(loyalty,
              [customer_id |-> c, sale_id |-> Len(sales'),
               transaction_type |-> "EARNED", points |-> C16_Points(req)])

C16_LoyaltyAward ==
    [][resp'.op = "create_sale" /\ C16_Sellable(resp'.req)
         => IF resp'.req.customer_id # 0 /\ C16_Points(resp'.req) > 0
            THEN C16_Awarded(resp'.req)
            ELSE UNCHANGED <<customers, loyalty>>]_vars

----------------------------------------------------------------------------
(* C17: create_sale is refused and changes no table (no sale, item,        *)
(* movement, inventory or customer change) when the item list is empty,    *)
(* the branch does not exist, a supplied customer does not exist, or some  *)
(* line names a missing or inactive product or a quantity <= 0, whatever   *)
(* the other lines of the cart are.                                        *)

C17_Invalid(req) ==
    \/ req.items = <<>>
    \/ req.branch_id \notin Branches
    \/ req.customer_id # 0 /\ req.customer_id \notin CustomerRows
    \/ \E k \in 1..Len(req.items) :
           \/ req.items[k].quantity <= 0
           \/ req.items[k].product_id \notin Products
           \/ ~ProductTable[req.items[k].product_id].is_active

C17_InvalidSaleRefused ==
    [][resp'.op = "create_sale" /\ C17_Invalid(resp'.req)
         => resp'.code \in {400, 403, 404} /\ UNCHANGED stored]_vars

\* a cart whose first line is in stock and whose second line names a
\* missing product was refused
C17_Witness ==
    /\ resp.op = "create_sale"
    /\ resp.code = 404
    /\ Len(resp.req.items) = 2
    /\ LineSellable(resp.req.items[1])
    /\ ~LineShort(inventory, resp.req.items[1], resp.req.branch_id)
    /\ resp.req.items[2].product_id \notin Products

----------------------------------------------------------------------------
(* C18: the movement log reconciles with the balance: in every reachable   *)
(* state the current_stock of a (product, branch) pair equals its initial  *)
(* stock plus the sum of the signed quantities of the pair's movements.    *)

C18_Logged(p, b) ==
    SumOver([m \in 1..Len(movements) |-> movements[m].quantity],
            {m \in 1..Len(movements) :
                movements[m].product_id = p /\ movements[m].branch_id = b})

C18_LogReconciles ==
    \A p \in Products, b \in Branches :
        StockOf(inventory, p, b) = StockOf(SeedInventory, p, b) + C18_Logged(p, b)

----------------------------------------------------------------------------
(* C19: after any sequence of adjust_stock, transfer_stock,                *)
(* receive_purchase_order, create_sale and refund_sale requests there is   *)
(* at most one inventory row per (product, branch) pair: a request that    *)
(* needs a missing row creates one, and later requests use that row.       *)

C19_OneRowPerPair ==
    \A p \in AllProducts, b \in BranchIds :
        Cardinality(RowsOf(inventory, p, b)) <= 1

C19_RowsKept ==
    /\ Len(inventory') >= Len(inventory)
    /\ \A i \in 1..Len(inventory) :
           /\ inventory'[i].product_id = inventory[i].product_id
           /\ inventory'[i].branch_id = inventory[i].branch_id

C19_UniqueRows == []C19_OneRowPerPair /\ [][C19_RowsKept]_vars

\* a row created by one request was used by a later one: two movements on
\* the pair of a row that was not seeded
C19_Witness ==
    /\ Len(inventory) > Len(SeedInventory)
    /\ \E m, n \in 1..Len(movements) :
           /\ m < n
           /\ movements[m].product_id = inventory[Len(inventory)].product_id
           /\ movements[m].branch_id = inventory[Len(inventory)].branch_id
           /\ movements[n].product_id = inventory[Len(inventory)].product_id
           /\ movements[n].branch_id = inventory[Len(inventory)].branch_id
           /\ movements[m].reference.kind # movements[n].reference.kind

----------------------------------------------------------------------------
(* C20: the movement log is append-only: no request changes or removes a   *)
(* movement, so the log of a later state extends the log of every earlier  *)
(* state, and a request that fails or is refused appends nothing.          *)

C20_Extends == 
    /\ Len(movements') >= Len(movements)
    /\ SubSeq(movements', 1, Len(movements)) = movements

C20_AppendOnly ==
    [][/\ C20_Extends
       /\ resp'.code \notin {200, 201} => movements' = movements]_vars

\* a receipt that named an item of no order, after a valid item, was
\* refused while the log already held movements
C20_Witness ==
    /\ resp.op = "receive_purchase_order"
    /\ resp.code = 400
    /\ resp.err = "InvalidItem"
    /\ resp.req.items[1].item_id \in 1..Len(po_items)
    /\ movements # <<>>


----------------------------------------------------------------------------
(* C21: a receive_purchase_order request that is rejected part-way, at an  *)
(* item id that does not exist or belongs to another order after earlier   *)
(* items of the list were processed, leaves no partial effect: received    *)
(* quantities, stock, the movement log and the order status are as before. *)

\* the k-th entry of the request is a positive receipt of an item that is
\* no item of the order
C21_InvalidAt(req, k) ==
    /\ req.items[k].received_quantity > 0
    /\ \/ req.items[k].item_id \notin 1..Len(po_items)
       \/ po_items[req.items[k].item_id].purchase_order_id # req.po_id

\* an authorised receipt on an Approved order with an invalid entry that
\* comes after a positive receipt of one of the order's own items
C21_PartWayStep ==
    /\ resp'.op = "receive_purchase_order"
    /\ UserRole[resp'.req.user] \in {"Admin", "InventoryManager"}
    /\ resp'.req.po_id \in 1..Len(purchase_orders)
    /\ purchase_orders[resp'.req.po_id].status = "Approved"
    /\ \E k \in 2..Len(resp'.req.items) :
          /\ C21_InvalidAt(resp'.req, k)
          /\ \E j \in 1..(k - 1) :
                /\ resp'.req.items[j].received_quantity > 0
                /\ ~C21_InvalidAt(resp'.req, j)

----------------------------------------------------------------------------
(* C22: every OUT movement appended by create_sale carries a reference     *)
(* that identifies its sale: the movements appended for a sale do not share *)
(* their reference with the OUT movement of any earlier sale.               *)

\* the positions of the log that hold the OUT movement of a sale
C22_SaleMovements(log) ==
    {n \in 1..Len(log) : log[n].movement_type = "OUT"
                         /\ log[n].reference.kind = "SALE"}

C22_ReferenceIdentifiesSale ==
    [][(resp'.op = "create_sale" /\ resp'.code = 201)
         => \A m \in (Len(movements) + 1)..Len(movements') :
              \A n \in C22_SaleMovements(movements) :
                  movements'[m].reference # movements[n].reference]_vars


----------------------------------------------------------------------------
(* C23: an accepted receive_purchase_order, for each listed item of the    *)
(* order with received_quantity r > 0, adds r to the item's                *)
(* received_quantity, adds r to current_stock of the row of (item product, *)
(* order branch), created at 0 when absent, and appends one IN movement of *)
(* quantity r that references the order number; entries with r <= 0 have   *)
(* no effect; there is no cap at ordered_quantity, so a receipt that takes *)
(* received_quantity above ordered_quantity is accepted in full.           *)

\* the entries of the request that are not skipped, in request order
C23_Positive(req) ==
    SelectSeq(req.items, LAMBDA entry : entry.received_quantity > 0)

\* an authorised receipt on an Approved order whose entries with r > 0 all
\* name items of the order
C23_ReceiveStep ==
    /\ resp'.op = "receive_purchase_order"
    /\ UserRole[resp'.req.user] \in {"Admin", "InventoryManager"}
    /\ resp'.req.po_id \in 1..Len(purchase_orders)
    /\ purchase_orders[resp'.req.po_id].status = "Approved"
    /\ resp'.req.items # <<>>
    /\ \A k \in 1..Len(resp'.req.items) :
          resp'.req.items[k].received_quantity > 0
            => /\ resp'.req.items[k].item_id \in 1..Len(po_items)
               /\ po_items[resp'.req.items[k].item_id].purchase_order_id
                    = resp'.req.po_id

\* what the positive entries deliver of item i, and to the row of (p, b)
C23_ToItem(entries, i) ==
    SumOver([k \in 1..Len(entries) |-> entries[k].received_quantity],
            {k \in 1..Len(entries) : entries[k].item_id = i})

C23_ToRow(entries, p, b, order) ==
    IF b # order.branch_id THEN 0
    ELSE SumOver([k \in 1..Len(entries) |-> entries[k].received_quantity],
                 {k \in 1..Len(entries) :
                     po_items[entries[k].item_id].product_id = p})

C23_Effect ==
    LET order == purchase_orders[resp'.req.po_id]
        entries == C23_Positive(resp'.req)
    IN /\ resp'.code = 200
       /\ Len(po_items') = Len(po_items)
       /\ \A i \in 1..Len(po_items) :
             po_items'[i] = [po_items[i] EXCEPT !.received_quantity =
                                @ + C23_ToItem(entries, i)]
       /\ \A p \in AllProducts, b \in BranchIds :
             /\ StockOf(inventory', p, b)
                  = StockOf(inventory, p, b) + C23_ToRow(entries, p, b, order)
             /\ C23_ToRow(entries, p, b, order) > 0
                  => RowsOf(inventory', p, b) # {}
       /\ Appended(movements, movements', Len(entries))
       /\ \A k \in 1..Len(entries) :
             movements'[Len(movements) + k] =
                 Movement(po_items[entries[k].item_id].product_id,
                          order.branch_id, "IN", entries[k].received_quantity,
                          [kind |-> "PO", id |-> order.po_number])

C23_ReceiveBooksDelivery == [][C23_ReceiveStep => C23_Effect]_vars

\* a receipt was accepted that took an item above its ordered quantity and
\* booked the delivery on a row of the order's branch
C23_Witness ==
    /\ resp.op = "receive_purchase_order"
    /\ resp.code = 200
    /\ \E k \in 1..Len(resp.req.items) :
          LET i == resp.req.items[k].item_id
          IN /\ resp.req.items[k].received_quantity > 0
             /\ po_items[i].received_quantity > po_items[i].ordered_quantity
             /\ po_items[i].received_quantity - resp.req.items[k].received_quantity
                  <= po_items[i].ordered_quantity
             /\ StockOf(inventory, po_items[i].product_id,
                        purchase_orders[resp.req.po_id].branch_id)
                  >= resp.req.items[k].received_quantity


----------------------------------------------------------------------------
(* C24: when two create_sale requests for the same (product, branch) are   *)
(* served concurrently, the check and the decrement of one are not         *)
(* interleaved with those of the other: they do not both pass the check   *)
(* against the same stock, so a sale that is stored takes its quantity     *)
(* from stock that holds it at that moment and the quantity sold never     *)
(* exceeds the stock available.                                            *)

C24_SaleStored ==
    /\ Len(sales') = Len(sales) + 1
    /\ resp'.op = "create_sale"
    /\ resp'.code = 201

C24_NoOversell ==
    [][C24_SaleStored =>
         \A p \in Products :
            LET b == resp'.req.branch_id
                sold == QuantityOf(resp'.req.items, p)
            IN sold <= StockOf(inventory, p, b)]_vars


----------------------------------------------------------------------------
(* C25: when two refund_sale requests for the same sale are served         *)
(* concurrently, the sale is refunded once in total: they do not both pass *)
(* the already-refunded check, so the log holds at most one IN movement of *)
(* the refund per item of the sale and the sold quantities are added back  *)
(* once.                                                                   *)

\* the IN movements the refunds of sale s appended
C25_Restorations(s) ==
    {m \in 1..Len(movements) :
        /\ movements[m].movement_type = "IN"
        /\ movements[m].reference = RefundReference(sales[s])}

C25_RefundedOnce ==
    \A s \in 1..Len(sales) :
        Cardinality(C25_Restorations(s)) <= Len(ItemsOf(sale_items, s))


----------------------------------------------------------------------------
(* C26: the status of a purchase order becomes Approved only by a request  *)
(* of an Admin: no request of an InventoryManager or a Cashier moves an    *)
(* order from Pending to Approved.                                         *)

C26_ApprovedByAdminOnly ==
    [][\A o \in 1..Len(purchase_orders) :
          (purchase_orders[o].status = "Pending"
             /\ purchase_orders'[o].status = "Approved")
            => UserRole[resp'.req.user] = "Admin"]_vars


----------------------------------------------------------------------------
(* C27: the quantity of a product sold by one successful create_sale, over *)
(* all the lines of the cart for that product, never exceeds the available *)
(* stock of the product at the branch before the sale; available_stock of  *)
(* a row the sale touched is not below 0 afterwards.                       *)

C27_Sold ==
    /\ Len(sales') = Len(sales) + 1
    /\ resp'.op = "create_sale"
    /\ resp'.code = 201

C27_CartWithinStock ==
    [][C27_Sold =>
         \A p \in Products :
            \A i \in RowsOf(inventory, p, resp'.req.branch_id) :
               /\ QuantityOf(resp'.req.items, p) <= available_stock(inventory[i])
               /\ available_stock(inventory[i]) >= 0
                    => available_stock(inventory'[i]) >= 0]_vars


----------------------------------------------------------------------------
(* C28: for every integer quantity of the request, zero and negative       *)
(* values included, transfer_stock never raises current_stock of the       *)
(* source branch, never lowers current_stock of the destination branch and *)
(* never leaves either of them below 0.                                    *)

C28_TransferOneWay ==
    [][resp'.op = "transfer_stock" =>
         LET p == resp'.req.product_id
             A == resp'.req.from_branch_id
             B == resp'.req.to_branch_id
         IN /\ StockOf(inventory', p, A) <= StockOf(inventory, p, A)
            /\ StockOf(inventory', p, B) >= StockOf(inventory, p, B)
            /\ StockOf(inventory', p, A) >= 0
            /\ StockOf(inventory', p, B) >= 0]_vars


----------------------------------------------------------------------------
(* C29: in every state reached by sales, refunds and manual adjustments    *)
(* from a customer with 0 points and an empty log, the loyalty_points of   *)
(* each customer equal the sum of the points of that customer's loyalty    *)
(* transactions.                                                           *)

C29_Logged(c) ==
    SumOver([i \in 1..Len(loyalty) |-> loyalty[i].points],
            {i \in 1..Len(loyalty) : loyalty[i].customer_id = c})

C29_PointsMatchLog ==
    \A c \in DOMAIN customers : customers[c].loyalty_points = C29_Logged(c)

\* after a sale for the customer and an adjustment that took points back,
\* the customer still holds points and the log has several rows
C29_Witness ==
    /\ resp.op = "adjust_loyalty_points"
    /\ resp.code = 200
    /\ resp.req.points < 0
    /\ customers[resp.req.customer_id].loyalty_points > 0
    /\ Len(loyalty) >= 2
    /\ \E s \in 1..Len(sales) : sales[s].customer_id = resp.req.customer_id


----------------------------------------------------------------------------
(* C30: in every reachable state a purchase order whose status is          *)
(* Cancelled has received_quantity 0 on every one of its items: an order   *)
(* is not cancelled after part of it was received.                         *)

C30_CancelledNothingReceived ==
    \A o \in 1..Len(purchase_orders) :
        purchase_orders[o].status = "Cancelled"
          => \A i \in 1..Len(po_items) :
                po_items[i].purchase_order_id = o
                  => po_items[i].received_quantity = 0

====
